---- MODULE Spec2Model ----
(***************************************************************************)
(* State-machine model of the QR scoring services of safepay:              *)
(*   enhanced_qr_scanner.py   (analyze_qr / feedback, diskcache, sklearn)  *)
(*   optimized_qr_scanner.py  (predict / feedback, diskcache, sklearn)     *)
(*   qr_scan_ml_service.py    (predict / feedback, diskcache, river)       *)
(* Each service is one uvicorn process with one asyncio event loop.  The   *)
(* handlers are "async def" bodies that never suspend (every call in them  *)
(* is synchronous; "await check_safe_browsing_api" awaits a coroutine that *)
(* itself never awaits), so a handler runs to completion before the loop   *)
(* starts the next one: one action per handler.  Requests that have        *)
(* arrived and wait for the loop are kept in "pending".                    *)
(*                                                                         *)
(* Texts are sequences of tokens; a token is a piece of the string that    *)
(* the code's prefix, substring and regex tests cannot split.              *)
(* Probabilities are integers in units of 1/10000, scores on the 0-100     *)
(* scale are integers in hundredths of a point.                            *)
(***************************************************************************)
EXTENDS Integers, Sequences, FiniteSets, TLC

\* ------------------------------------------------------------------ bounds
MaxTicks == 2          \* clock ticks the model lets pass
TickSeconds == 150     \* seconds per tick (two ticks reach the 300 s TTL)
MaxRequests == 3       \* scoring requests accepted in one behaviour
MaxConcurrent == 2     \* scoring requests for one text waiting at once
MaxFeedback == 1       \* feedback calls in one behaviour
MaxBurst == 25         \* feedback calls in one behaviour of BurstSpec
MaxTexts == 1          \* distinct texts named by the requests of one behaviour

\* ------------------------------------------------------- program constants
CACHE_TTL == 300            \* cache.set(..., expire=300)
ENH_RETRAIN_EVERY == 10     \* len(data["data"]) % 10
OPT_RETRAIN_EVERY == 25     \* len(data['y']) % 25
NEUTRAL_PROBA == 5000       \* return 0.5 / proba = 0.5
HEUR_STEP == 1000           \* len(reasons) * 10
HEUR_CAP == 4000            \* min(40, ...)
SB_FLOOR == 9000            \* max(90, base_risk)
UPI_DISCOUNT == 3000        \* base_risk - 30
HIGH_AT == 7000             \* base_risk >= 70
MEDIUM_AT == 3000           \* base_risk >= 30
SCALE_MAX == 10000          \* min(100, ...)

\* -------------------------------------------------------------------- texts
T_EMPTY == << >>
T_UPI == <<"upi://", "pay?", "pa=", "7357802287", "@", "superyes", "&",
           "pn=", "Kshitij", "&", "am=", "100.00", "&", "cu=", "INR">>
T_SCAM_UPI == <<"upi://", "pay?", "pa=", "urgent", "-", "verify", "@",
                "hack.in", "&", "pn=", "Account%20Verification", "&",
                "am=", "1.00">>
T_URL == <<"http://", "fake-bank.phishing.com", "/", "login">>

\* the texts the services are sent in the model
Texts == {T_EMPTY, T_UPI, T_URL}

\* str.lower() on a token
Lower(tok) ==
    CASE tok = "INR" -> "inr"
      [] tok = "Kshitij" -> "kshitij"
      [] tok = "Account%20Verification" -> "account%20verification"
      [] tok = "KYC%20Update" -> "kyc%20update"
      [] tok = "Your%20account%20will%20be%20blocked" ->
             "your%20account%20will%20be%20blocked"
      [] OTHER -> tok

\* len() of a token
TokLen(tok) ==
    CASE tok \in {"/", "&", "@", "-"} -> 1
      [] tok \in {"pa=", "pn=", "am=", "cu=", "tn=", "INR", "abc", "123",
                  "ybl", "kyc"} -> 3
      [] tok \in {"pay?", "1.00", "shop", "http"} -> 4
      [] tok \in {"login", "hello"} -> 5
      [] tok \in {"upi://", "100.00", "urgent", "verify", "okaxis"} -> 6
      [] tok \in {"http://", "Kshitij", "hack.in"} -> 7
      [] tok \in {"superyes", "https://"} -> 8
      [] tok = "7357802287" -> 10
      [] tok = "example.com" -> 11
      [] tok \in {"kshitijmeena", "KYC%20Update"} -> 12
      [] tok = "verification.co" -> 15
      [] tok \in {"fake-bank.phishing.com", "Account%20Verification"} -> 22
      [] tok = "Your%20account%20will%20be%20blocked" -> 36
      [] OTHER -> 1

RECURSIVE StrLen(_)
StrLen(x) == IF x = << >> THEN 0 ELSE TokLen(Head(x)) + StrLen(Tail(x))

\* keyword k occurs inside token tok without being the whole token
ProperSubstr == {<<"account%20verification", "account">>,
                 <<"account%20verification", "verification">>,
                 <<"kyc%20update", "kyc">>,
                 <<"kyc%20update", "update">>,
                 <<"your%20account%20will%20be%20blocked", "account">>,
                 <<"your%20account%20will%20be%20blocked", "block">>,
                 <<"verification.co", "verification">>}

\* "k in s" for a lower-cased token sequence
TokHas(tok, k) == tok = k \/ <<tok, k>> \in ProperSubstr
Contains(x, k) == \E i \in 1..Len(x) : TokHas(Lower(x[i]), k)
StartsWith(x, p) == Len(x) > 0 /\ x[1] = p
\* qr_text.startswith("http"): the first token begins with "http"
StartsWithHttp(x) == Len(x) > 0 /\ x[1] \in {"http", "http://", "https://"}
CountTok(x, t) == Cardinality({i \in 1..Len(x) : x[i] = t})

\* ---------------------------------------------- enhanced_qr_scanner: pure
upi_suspicious_keywords ==
    <<"urgent", "verify", "kyc", "block", "expire", "update", "limited">>
url_suspicious_keywords ==
    <<"login", "verify", "account", "secure", "banking", "update", "password">>
shortened_url_domains ==
    {"bit.ly", "goo.gl", "tinyurl.com", "t.co", "is.gd", "cli.gs", "ow.ly"}
upi_id_words == {"verify", "kyc", "urgent", "alert"}
suspicious_domains == {"verification", "alert", "secure", "update", "block"}
ip_hosts == {"192.168.1.1"}

\* the reasons "for keyword in kws: if keyword in url.lower()" appends
KeywordReasons(x, kws, tag) ==
    LET hit == SelectSeq(kws, LAMBDA k : Contains(x, k))
    IN  [i \in 1..Len(hit) |-> <<tag, hit[i]>>]

\* re.search(r"pa=([^&]+)", url).group(1): the tokens after the first "pa="
\* that is followed by a non-"&" token, up to the next "&"
PaStarts(x) == {i \in 1..Len(x) : x[i] = "pa=" /\ i < Len(x) /\ x[i+1] # "&"}
PaFirst(x) == CHOOSE i \in PaStarts(x) : \A j \in PaStarts(x) : i <= j
PaEnd(x) ==
    LET amps == {j \in (PaFirst(x)+1)..Len(x) : x[j] = "&"}
    IN  IF amps = {} THEN Len(x)
        ELSE (CHOOSE j \in amps : \A k \in amps : j <= k) - 1
UpiId(x) == SubSeq(x, PaFirst(x) + 1, PaEnd(x))

\* upi_id.split("@")[1]
UpiDomain(id) ==
    LET ats == {i \in 1..Len(id) : id[i] = "@"}
        a1 == CHOOSE i \in ats : \A j \in ats : i <= j
        rest == {i \in ats : i > a1}
        a2 == IF rest = {} THEN Len(id) + 1
              ELSE CHOOSE i \in rest : \A j \in rest : i <= j
    IN  SubSeq(id, a1 + 1, a2 - 1)

UpiIdReasons(x) ==
    IF ~(\E i \in 1..Len(x) : x[i] = "@") \/ PaStarts(x) = {} THEN << >>
    ELSE LET id == UpiId(x)
             r1 == IF \E w \in upi_id_words : Contains(id, w)
                   THEN << <<"Suspicious UPI ID", id>> >> ELSE << >>
             r2 == IF (\E i \in 1..Len(id) : id[i] = "@")
                      /\ \E s \in suspicious_domains :
                             Contains(UpiDomain(id), s)
                   THEN << <<"Suspicious UPI domain", UpiDomain(id)>> >>
                   ELSE << >>
         IN  r1 \o r2

\* urlparse(url).netloc: the token after the scheme
Netloc(x) == IF Len(x) >= 2 THEN x[2] ELSE ""

UrlReasons(x) ==
    LET r1 == IF Netloc(x) \in shortened_url_domains
              THEN << <<"Shortened URL detected", Netloc(x)>> >> ELSE << >>
        r2 == IF StartsWith(x, "http://")
              THEN << <<"Non-secure HTTP connection", "">> >> ELSE << >>
        r3 == KeywordReasons(x, url_suspicious_keywords,
                             "Suspicious keyword in URL")
        r4 == IF Netloc(x) \in ip_hosts
              THEN << <<"IP address used instead of domain name", "">> >>
              ELSE << >>
    IN  r1 \o r2 \o r3 \o r4

apply_heuristic_checks(x) ==
    LET reasons ==
            IF StartsWith(x, "upi://")
            THEN KeywordReasons(x, upi_suspicious_keywords,
                                "Suspicious keyword in UPI")
                 \o UpiIdReasons(x)
            ELSE IF StartsWith(x, "http://") \/ StartsWith(x, "https://")
                 THEN UrlReasons(x)
                 ELSE << >>
    IN  [is_suspicious |-> reasons # << >>, reasons |-> reasons]

Bit(b) == IF b THEN 1 ELSE 0
Min(a, b) == IF a <= b THEN a ELSE b
Max(a, b) == IF a >= b THEN a ELSE b

\* round(v, n) for v >= 0 held as an integer: to the nearest multiple of
\* unit, ties to the even multiple
RoundTo(v, unit) ==
    LET q == v \div unit
        r == v % unit
    IN  IF 2 * r > unit \/ (2 * r = unit /\ q % 2 = 1) THEN q + 1 ELSE q
\* ------------------------------------------------------------ diskcache
\* markers for "nothing there": a record where the value proper is a record
\* or a sequence, a string where it is a string
NoEntry == [no_entry |-> TRUE]
NoValue == [no_value |-> TRUE]
Absent == [absent |-> TRUE]
NoKey == "absent"

\* an entry that is still visible at its expire_time
CacheLiveAtExpiry(c, k, t) == c[k] # NoEntry /\ c[k].expire_time >= t
\* Cache.get / "key in cache": an entry is visible while expire_time > now
CacheLive(c, k, t) == c[k] # NoEntry /\ c[k].expire_time > t
CacheGet(c, k, t) == IF CacheLive(c, k, t) THEN c[k].value ELSE NoValue
\* a set() that stores nothing
CacheSetDropped(c, k, v, t) == c
\* Cache.set(key, value, expire=CACHE_TTL)
CacheSet(c, k, v, t) ==
    [c EXCEPT ![k] = [value |-> v, expire_time |-> t + CACHE_TTL]]
\* a delete() that removes nothing
CacheDeleteNoop(c, k) == c
\* Cache.delete(key) / del cache[key]
CacheDelete(c, k) == [c EXCEPT ![k] = NoEntry]

\* ------------------------------------------------- models (sklearn, river)
\* A fitted model is known by what it was fitted on (vec: the vectorizer
\* step, clf: the classifier step, as the number of training examples) and
\* by what predict_proba returns for each text, which is fixed when the
\* object is fitted: a probability, or RAISES when the call throws.
NoModel == [none |-> TRUE]
RAISES == -1
\* what the classifiers that a fit can produce answer: the model keeps two
\* of the possible functions from texts to probabilities
BehaviourA == [t \in Texts |-> IF t = T_URL THEN 8200 ELSE 1500]
BehaviourB == [t \in Texts |-> IF t = T_URL THEN 1500 ELSE 8200]
FittedBehaviours == {BehaviourA, BehaviourB}
AllRaise == [t \in Texts |-> RAISES]
BrokenBehaviours == {AllRaise} \cup FittedBehaviours
FromFile == 0

\* predict_with_ml: 0.5 when there is no model or predict_proba raises
predict_with_ml(m, x) ==
    IF m = NoModel THEN NEUTRAL_PROBA
    ELSE IF m.proba[x] = RAISES THEN NEUTRAL_PROBA ELSE m.proba[x]

\* Safe Browsing outcomes: not configured / failed, checked and clean,
\* checked and flagged
SbUnchecked == [checked |-> FALSE, is_unsafe |-> FALSE]
SbOutcomes == {SbUnchecked,
               [checked |-> TRUE, is_unsafe |-> FALSE],
               [checked |-> TRUE, is_unsafe |-> TRUE]}
Latencies == {2, 7}

\* analyze_qr below the cache lookup, for the empty text
EmptyResult ==
    [risk_score |-> 0, risk_level |-> "unknown",
     reasons |-> << <<"Empty QR content", "">> >>,
     analysis |-> Absent, qr_type |-> NoKey, latency_ms |-> 0,
     cached |-> NoKey]

\* a base_risk whose heuristic penalty has no ceiling
BaseRiskPenaltyUncapped(x, ml_score, heur, sb) ==
    LET b1 == IF heur.is_suspicious
              THEN Min(SCALE_MAX, ml_score + Len(heur.reasons) * HEUR_STEP)
              ELSE ml_score
        b2 == IF sb.is_unsafe THEN Max(SB_FLOOR, b1) ELSE b1
    IN  IF StartsWith(x, "upi://") /\ ~heur.is_suspicious
        THEN Max(0, b2 - UPI_DISCOUNT) ELSE b2
\* a base_risk without the legitimate-UPI discount
BaseRiskNoDiscount(x, ml_score, heur, sb) ==
    LET b1 == IF heur.is_suspicious
              THEN Min(SCALE_MAX,
                       ml_score + Min(HEUR_CAP, Len(heur.reasons) * HEUR_STEP))
              ELSE ml_score
    IN  IF sb.is_unsafe THEN Max(SB_FLOOR, b1) ELSE b1
\* a base_risk without the Safe Browsing floor
BaseRiskNoFloor(x, ml_score, heur, sb) ==
    LET b1 == IF heur.is_suspicious
              THEN Min(SCALE_MAX,
                       ml_score + Min(HEUR_CAP, Len(heur.reasons) * HEUR_STEP))
              ELSE ml_score
    IN  IF StartsWith(x, "upi://") /\ ~heur.is_suspicious
        THEN Max(0, b1 - UPI_DISCOUNT) ELSE b1
\* base_risk after the heuristic, Safe Browsing and UPI adjustments
\* a base_risk that starts from the probability of the other class
BaseRiskInverted(x, ml_score, heur, sb) ==
    LET b0 == SCALE_MAX - ml_score
        b1 == IF heur.is_suspicious
              THEN Min(SCALE_MAX,
                       b0 + Min(HEUR_CAP, Len(heur.reasons) * HEUR_STEP))
              ELSE b0
        b2 == IF sb.is_unsafe THEN Max(SB_FLOOR, b1) ELSE b1
    IN  IF StartsWith(x, "upi://") /\ ~heur.is_suspicious
        THEN Max(0, b2 - UPI_DISCOUNT) ELSE b2
BaseRisk(x, ml_score, heur, sb) ==
    LET b0 == ml_score
        b1 == IF heur.is_suspicious
              THEN Min(SCALE_MAX,
                       b0 + Min(HEUR_CAP, Len(heur.reasons) * HEUR_STEP))
              ELSE b0
        b2 == IF sb.is_unsafe THEN Max(SB_FLOOR, b1) ELSE b1
    IN  IF StartsWith(x, "upi://") /\ ~heur.is_suspicious
        THEN Max(0, b2 - UPI_DISCOUNT) ELSE b2

RiskLevel(base_risk) ==
    IF base_risk >= HIGH_AT THEN "high"
    ELSE IF base_risk >= MEDIUM_AT THEN "medium" ELSE "low"

\* the reasons list after the appends; heuristic_result["reasons"] is the
\* same list object, so the appends show in heuristic_flags too
FinalReasons(x, heur, sb, base_risk) ==
    LET r1 == IF sb.is_unsafe
              THEN heur.reasons \o << <<"Flagged by Safe Browsing API", "">> >>
              ELSE heur.reasons
    IN  IF r1 = << >> /\ base_risk < MEDIUM_AT
        THEN IF StartsWith(x, "upi://")
             THEN << <<"Legitimate UPI payment QR", "">> >>
             ELSE IF StartsWith(x, "https://")
                  THEN << <<"No suspicious patterns detected", "">> >>
                  ELSE r1
        ELSE r1

\* analyze_qr below the empty-text check: sb is what the Safe Browsing
\* call gave (asked only for http/https texts), lat the measured latency
ComputeResult(x, m, sbIn, lat) ==
    LET heur == apply_heuristic_checks(x)
        ml_score == predict_with_ml(m, x)
        sb == IF StartsWith(x, "http://") \/ StartsWith(x, "https://")
              THEN sbIn ELSE SbUnchecked
        base_risk == BaseRisk(x, ml_score, heur, sb)
        reasons == FinalReasons(x, heur, sb, base_risk)
    IN  [risk_score |-> RoundTo(base_risk, 10),
         risk_level |-> RiskLevel(base_risk),
         reasons |-> reasons,
         analysis |-> [ml_score |-> RoundTo(ml_score, 10),
                       heuristic_flags |-> Len(reasons),
                       safe_browsing_check |-> sb.checked,
                       safe_browsing_unsafe |-> sb.is_unsafe],
         qr_type |-> IF StartsWith(x, "upi://") THEN "upi"
                     ELSE IF StartsWithHttp(x) THEN "url" ELSE "text",
         latency_ms |-> lat,
         cached |-> NoKey]

\* ------------------------------------------------------ training data
D1 == <<"upi://", "pay?", "pa=", "kshitijmeena", "@", "okaxis", "&", "pn=",
        "Friend", "&", "am=", "50.00", "&", "cu=", "INR">>
D2 == <<"upi://", "pay?", "pa=", "9876543210", "@", "ybl", "&", "pn=",
        "Shop", "&", "am=", "549.00", "&", "cu=", "INR">>
D3 == <<"upi://", "pay?", "pa=", "kyc", "@", "verification.co", "&", "pn=",
        "KYC%20Update", "&", "am=", "1.00", "&", "tn=",
        "Your%20account%20will%20be%20blocked">>
D4 == <<"https://", "bit.ly", "/", "3xScam">>

\* load_data's built-in examples
enh_default_data ==
    << [text |-> T_UPI, label |-> 0], [text |-> D1, label |-> 0],
       [text |-> D2, label |-> 0], [text |-> T_SCAM_UPI, label |-> 1],
       [text |-> D3, label |-> 1], [text |-> T_URL, label |-> 1],
       [text |-> D4, label |-> 1] >>

\* a data file is Absent, Corrupt (not parseable) or holds a JSON document
Corrupt == [corrupt |-> TRUE]
File(data) == [content |-> data]

\* load_data: the file's content, or the built-in examples when the file
\* does not exist or cannot be read and parsed
enh_load_data(file) ==
    IF file \in {Absent, Corrupt} THEN enh_default_data ELSE file.content

\* save_data: the write succeeds, or open() fails and the file is as it
\* was, or the write fails after open(..., 'w') truncated the file; the
\* exception is logged and swallowed in each case
SaveOutcomes == {"ok", "open_failed", "write_failed"}
enh_save_data(file, data, outcome) ==
    CASE outcome = "ok" -> File(data)
      [] outcome = "open_failed" -> file
      [] OTHER -> Corrupt
\* ------------------------------------------------------------------ state
VARIABLES
    service,        \* which of the three services this process is
    now,            \* the clock, in ticks of TickSeconds
    pending,        \* scoring requests that arrived and wait for the loop
    asked,          \* the texts that requests have named so far
    enh_cache,      \* enhanced_qr_scanner.cache, by qr_text
    text_model,     \* enhanced_qr_scanner.text_model
    enh_data_file,  \* content of enhanced_qr_data.json
    opt_cache,      \* optimized_qr_scanner.cache
    model,          \* optimized_qr_scanner.model
    opt_data_file,  \* content of qr_data.json
    opt_model_file, \* content of model.joblib
    ml_cache,       \* qr_scan_ml_service.cache
    ml_model,       \* qr_scan_ml_service.model
    resp,           \* what the handler that ran last returned
    calls,          \* per text: scoring calls served since its entry last
                    \*   went away (or since start)
    evals,          \* per text: evaluations run in the same period
    conc,           \* per text: one of those calls ran while another
                    \*   request for the text was waiting
    dirty,          \* per text: feedback returned since the entry was set
    last,           \* per text: result and time of the last scoring call
                    \*   since the last feedback
    n_req,          \* scoring requests accepted so far
    n_fb,           \* feedback calls so far
    fits,           \* fit() calls made by feedback so far
    retrains,       \* fit() calls that returned normally
    streak,         \* successful feedback calls in a row since the last
                    \*   fit() that returned normally (or since start)
    device_risk_scores, \* TransactionRiskScorer.device_risk_scores
    ip_risk_scores,     \* TransactionRiskScorer.ip_risk_scores
    vpa_risk_scores,    \* TransactionRiskScorer.vpa_risk_scores
    probe,          \* a scorer called on its own: its arguments, and its
                    \*   return value once it has run
    batch_processor,    \* a BatchProcessor: self.batch, self.max_batch_size
    coros,          \* the process() coroutine of each caller
    timers,         \* the callers inside asyncio.sleep, earliest first
    predicted       \* the texts predict_batch has taken off the batch

vars == <<service, now, pending, asked, enh_cache, text_model, enh_data_file,
          opt_cache, model, opt_data_file, opt_model_file, ml_cache,
          ml_model, resp, calls, evals, conc, dirty, last, n_req, n_fb,
          fits, retrains, streak, device_risk_scores, ip_risk_scores,
          vpa_risk_scores, probe, batch_processor, coros, timers,
          predicted>>

enh_vars == <<enh_cache, text_model, enh_data_file>>
opt_vars == <<opt_cache, model, opt_data_file, opt_model_file>>
ml_vars == <<ml_cache, ml_model>>
txn_vars == <<device_risk_scores, ip_risk_scores, vpa_risk_scores>>
bp_vars == <<batch_processor, coros, timers, predicted>>

Now == now * TickSeconds
NoLast == [no_last |-> TRUE]
NoResp == [op |-> "none"]
NoProbe == [kind |-> "none"]
\* a risk map with no entity in it
EmptyMap == [k \in {} |-> 0]

\* the cache of the running service
SvcCache ==
    CASE service = "enhanced" -> enh_cache
      [] service = "optimized" -> opt_cache
      [] OTHER -> ml_cache

\* a result without the two fields that tell a cached answer from a fresh
\* one
Core(r) == [r EXCEPT !.cached = NoKey, !.latency_ms = 0]

\* bookkeeping of a scoring call for x that returned r; hit: it was served
\* from the cache, evaluated: features / heuristics and the model ran,
\* stored: the call wrote the cache entry
Scored(x, r, hit, evaluated, stored) ==
    /\ pending' = [pending EXCEPT ![x] = @ - 1]
    /\ calls' = [calls EXCEPT ![x] = @ + 1]
    /\ evals' = [evals EXCEPT ![x] = @ + (IF evaluated THEN 1 ELSE 0)]
    /\ conc' = [conc EXCEPT ![x] = @ \/ pending[x] >= 2]
    /\ dirty' = [dirty EXCEPT ![x] = IF stored THEN FALSE ELSE @]
    /\ last' = [last EXCEPT ![x] = [result |-> r, time |-> Now]]
    /\ resp' = [op |-> "score", text |-> x, result |-> r, hit |-> hit,
                after_fb |-> dirty[x],
                stale |-> hit /\ dirty[x],
                prev |-> IF last[x] # NoLast /\ Now - last[x].time < CACHE_TTL
                         THEN last[x].result ELSE NoValue]
    /\ UNCHANGED <<service, now, asked, n_req, n_fb, fits, retrains,
                   streak, txn_vars, probe, bp_vars>>

\* a request may name x: x was named before or is one more text within the
\* bound
InScope(x) == x \in asked \/ Cardinality(asked) < MaxTexts

\* bookkeeping of a feedback call for x that left cache c as c2; ok: it
\* returned its success response, fitted: a fit() in it returned normally.
\* The entries that went away start a new period, the results remembered
\* for comparison are dropped, and an entry for x that is still in c was
\* written before this feedback.
FedBack(x, c, c2, ok, fitted) ==
    /\ calls' = [t \in Texts |-> IF CacheLive(c, t, Now) /\ ~CacheLive(c2, t, Now)
                                 THEN 0 ELSE calls[t]]
    /\ evals' = [t \in Texts |-> IF CacheLive(c, t, Now) /\ ~CacheLive(c2, t, Now)
                                 THEN 0 ELSE evals[t]]
    /\ conc' = [t \in Texts |-> IF CacheLive(c, t, Now) /\ ~CacheLive(c2, t, Now)
                                THEN FALSE ELSE conc[t]]
    /\ dirty' = [dirty EXCEPT ![x] = @ \/ (ok /\ c[x] # NoEntry)]
    /\ streak' = IF fitted \/ ~ok THEN 0 ELSE streak + 1
    /\ last' = [t \in Texts |-> NoLast]
    /\ n_fb' = n_fb + 1
    /\ asked' = asked \cup {x}
    /\ UNCHANGED <<service, now, pending, n_req, txn_vars, probe, bp_vars>>

\* a scoring request for x reaches the server
Arrive(x) ==
    /\ n_req < MaxRequests
    /\ pending[x] < MaxConcurrent
    /\ InScope(x)
    /\ asked' = asked \cup {x}
    /\ pending' = [pending EXCEPT ![x] = @ + 1]
    /\ n_req' = n_req + 1
    /\ UNCHANGED <<service, now, enh_vars, opt_vars, ml_vars, resp, calls,
                   evals, conc, dirty, last, n_fb, fits, retrains, streak,
                   txn_vars, probe, bp_vars>>

\* time passes; an entry that expires ends its text's period
Tick ==
    /\ now < MaxTicks
    /\ now' = now + 1
    /\ LET gone(t) == CacheLive(SvcCache, t, Now)
                      /\ ~CacheLive(SvcCache, t, (now + 1) * TickSeconds)
       IN  /\ calls' = [t \in Texts |-> IF gone(t) THEN 0 ELSE calls[t]]
           /\ evals' = [t \in Texts |-> IF gone(t) THEN 0 ELSE evals[t]]
           /\ conc' = [t \in Texts |-> IF gone(t) THEN FALSE ELSE conc[t]]
    /\ UNCHANGED <<service, pending, asked, enh_vars, opt_vars, ml_vars,
                   resp, dirty, last, n_req, n_fb, fits, retrains, streak,
                   txn_vars, probe, bp_vars>>

\* ------------------------------------------- enhanced_qr_scanner: handlers
\* a cached answer that leaves the reasons out
enh_cached_answer_bare(r) == [r EXCEPT !.cached = "True", !.reasons = << >>]
\* cached_result["cached"] = True; return cached_result
enh_cached_answer(r) == [r EXCEPT !.cached = "True"]

\* POST /predict -> analyze_qr(qr_text)
analyze_qr(x, sb, lat) ==
    LET cached_result == CacheGet(enh_cache, x, Now)
        result == ComputeResult(x, text_model, sb, lat)
    IN  IF cached_result # NoValue
        THEN /\ Scored(x, enh_cached_answer(cached_result),
                       TRUE, FALSE, FALSE)
             /\ UNCHANGED enh_cache
        ELSE IF x = T_EMPTY
        THEN /\ Scored(x, EmptyResult, FALSE, FALSE, FALSE)
             /\ UNCHANGED enh_cache
        ELSE /\ enh_cache' = CacheSet(enh_cache, x, result, Now)
             /\ Scored(x, result, FALSE, TRUE, TRUE)

EnhPredict ==
    /\ service = "enhanced"
    /\ \E x \in Texts, sb \in SbOutcomes, lat \in Latencies :
          /\ pending[x] > 0
          /\ analyze_qr(x, sb, lat)
    /\ UNCHANGED <<text_model, enh_data_file, opt_vars, ml_vars>>

\* text_model.fit(df["text"], df["label"]) on the pipeline object itself:
\* it returns normally, or raises before a step was refitted, or raises
\* after the vectorizer step was refitted and before the classifier was
FitOutcomes == {"ok", "raise_early", "raise_late"}
PipelineFit(m, n, outcome, f) ==
    CASE outcome = "ok" -> [vec |-> n, clf |-> n, proba |-> f]
      [] outcome = "raise_late" -> [vec |-> n, clf |-> m.clf, proba |-> f]
      [] OTHER -> m

\* POST /feedback
EnhFeedback ==
    /\ service = "enhanced"
    /\ \E x \in {t \in Texts : InScope(t)}, is_scam \in BOOLEAN,
          save \in SaveOutcomes :
          LET data == Append(enh_load_data(enh_data_file),
                             [text |-> x, label |-> Bit(is_scam),
                              reason |-> "None",
                              timestamp |-> "time.time()"])
              due == Len(data) % ENH_RETRAIN_EVERY = 0
              retrain == due /\ text_model # NoModel
              cache2 == CacheDelete(enh_cache, x)
          IN  \E fit \in IF retrain THEN FitOutcomes ELSE {"none"} :
              \E f \in CASE fit = "ok" -> FittedBehaviours
                         [] fit = "raise_late" -> BrokenBehaviours
                         [] OTHER -> {AllRaise} :
                 /\ enh_data_file' = enh_save_data(enh_data_file, data, save)
                 /\ text_model' = IF retrain
                                  THEN PipelineFit(text_model, Len(data),
                                                   fit, f)
                                  ELSE text_model
                 /\ fits' = fits + Bit(retrain)
                 /\ retrains' = retrains + Bit(retrain /\ fit = "ok")
                 /\ enh_cache' = cache2
                 /\ resp' = [op |-> "feedback", text |-> x, http |-> 200,
                             status |-> "feedback_recorded",
                             new_sample_count |-> Len(data),
                             example |-> data[Len(data)],
                             due |-> due,
                             retrain |-> IF ~retrain THEN "none"
                                         ELSE IF fit = "ok" THEN "ok"
                                         ELSE "failed"]
                 /\ FedBack(x, enh_cache, cache2, TRUE,
                            retrain /\ fit = "ok")
    /\ UNCHANGED <<opt_vars, ml_vars>>

\* ------------------------------------------ optimized_qr_scanner: handlers
OPT_LEN_CAP == 100          \* min(len(qr_text), 100)
OPT_UPI_BOOST == 2500       \* upi_safe_boost = -25
OPT_PAYMENT_BOOST == 1500   \* upi_safe_boost = -15


opt_extract_features(x) ==
    [length |-> Min(StrLen(x), OPT_LEN_CAP),
     has_upi |-> Bit(Len(x) > 0 /\ Lower(x[1]) = "upi://"),
     num_params |-> CountTok(x, "&"),
     urgent |-> Bit(Contains(x, "urgent")),
     payment |-> Bit(Contains(x, "payment")),
     currency |-> Bit(Contains(x, "inr"))]

\* predict below the cache lookup
OptResult(x, m, lat) ==
    LET features == opt_extract_features(x)
        proba == predict_with_ml(m, x)
        upi_safe_boost ==
            IF features.has_upi = 1
            THEN IF features.payment = 1 /\ features.urgent = 0
                 THEN OPT_PAYMENT_BOOST ELSE OPT_UPI_BOOST
            ELSE 0
    IN  [risk_score |-> Max(0, Min(SCALE_MAX, proba - upi_safe_boost)),
         latency_ms |-> lat,
         features |-> features,
         cached |-> NoKey]

\* POST /predict
OptPredict ==
    /\ service = "optimized"
    /\ \E x \in Texts, lat \in Latencies :
          /\ pending[x] > 0
          /\ IF CacheLive(opt_cache, x, Now)
             THEN /\ Scored(x, [CacheGet(opt_cache, x, Now)
                                   EXCEPT !.cached = "True"],
                            TRUE, FALSE, FALSE)
                  /\ UNCHANGED opt_cache
             ELSE /\ opt_cache' = CacheSet(opt_cache, x,
                                           OptResult(x, model, lat), Now)
                  /\ Scored(x, OptResult(x, model, lat), FALSE, TRUE, TRUE)
    /\ UNCHANGED <<model, opt_data_file, opt_model_file, enh_vars, ml_vars>>

\* load_data's built-in examples, X[i] beside y[i]
opt_default_data ==
    << [features |-> [length |-> 45, has_upi |-> 1, num_params |-> 2,
                      urgent |-> 0, payment |-> 0, currency |-> 1],
        label |-> 0],
       [features |-> [length |-> 50, has_upi |-> 1, num_params |-> 3,
                      urgent |-> 0, payment |-> 0, currency |-> 1],
        label |-> 0],
       [features |-> [length |-> 80, has_upi |-> 0, num_params |-> 5,
                      urgent |-> 1, payment |-> 1, currency |-> 0],
        label |-> 1] >>

\* load_data: the file's content, the built-in examples when there is no
\* file; an unreadable file makes json.load raise
opt_load_data(file) ==
    IF file = Absent THEN opt_default_data ELSE file.content

\* save_data: as in the enhanced service, but the exception is not caught
opt_save_data(file, data, outcome) ==
    CASE outcome = "ok" -> File(data)
      [] outcome = "open_failed" -> file
      [] OTHER -> Corrupt

\* POST /feedback.  The handler has no try/except: an exception ends it
\* with a 500 response at the statement that raised (load_data, model.fit,
\* joblib.dump, save_data, in this order).
OptFeedback ==
    /\ service = "optimized"
    /\ \E x \in {t \in Texts : InScope(t)}, is_scam \in BOOLEAN :
          LET loaded == opt_data_file # Corrupt
              example == [features |-> opt_extract_features(x),
                          label |-> Bit(is_scam)]
              n == IF loaded THEN Len(opt_load_data(opt_data_file)) + 1 ELSE 0
              due == loaded /\ n % OPT_RETRAIN_EVERY = 0
          IN  \E fit \in IF due THEN FitOutcomes ELSE {"none"} :
              \E f \in CASE fit = "ok" -> FittedBehaviours
                         [] fit = "raise_late" -> BrokenBehaviours
                         [] OTHER -> {AllRaise} :
              \E dump \in IF fit = "ok" THEN BOOLEAN ELSE {FALSE} :
              \E save \in IF dump THEN SaveOutcomes ELSE {"none"} :
                 LET ok == loaded /\ (due => save = "ok")
                 IN  /\ model' = IF due THEN PipelineFit(model, n, fit, f)
                                 ELSE model
                     /\ opt_model_file' = IF dump THEN model'
                                          ELSE opt_model_file
                     /\ opt_data_file' =
                            IF dump
                            THEN opt_save_data(
                                     opt_data_file,
                                     Append(opt_load_data(opt_data_file),
                                            example),
                                     save)
                            ELSE opt_data_file
                     /\ fits' = fits + Bit(due)
                     /\ retrains' = retrains + Bit(fit = "ok")
                     /\ resp' = [op |-> "feedback", text |-> x,
                                 http |-> IF ok THEN 200 ELSE 500,
                                 status |-> IF ok THEN "feedback_received"
                                            ELSE "error",
                                 example |-> example,
                                 due |-> due,
                                 retrain |-> IF ~due THEN "none"
                                             ELSE IF fit = "ok" THEN "ok"
                                             ELSE "failed"]
                     /\ FedBack(x, opt_cache, opt_cache, ok, fit = "ok")
    /\ UNCHANGED <<opt_cache, enh_vars, ml_vars>>

\* -------------------------------------------- qr_scan_ml_service: handlers
ML_KEYWORD_BUMP == 3000     \* proba + 0.3
ML_UPI_RELIEF == 1000       \* proba - 0.1
ML_HIGH_ABOVE == 7000       \* proba > 0.7
ML_MEDIUM_ABOVE == 3000     \* proba > 0.3

\* tokens with a "." in them
DotTokens == {"hack.in", "100.00", "1.00", "50.00", "549.00",
              "fake-bank.phishing.com", "verification.co", "bit.ly"}

\* UPI_REGEX.match: "upi://", one character that is none of whitespace,
\* "/", "$", ".", "?", "#", one more character, then no whitespace
is_valid_upi(x) ==
    /\ Len(x) >= 2
    /\ Lower(x[1]) = "upi://"
    /\ ~(x[2] \in {"/", "$", ".", "?", "#", " "})
    /\ (TokLen(x[2]) >= 2 \/ Len(x) >= 3)
    /\ \A i \in 1..Len(x) : x[i] # " "

ml_extract_features(x) ==
    LET has_upi == \E i \in 1..Len(x) : x[i] = "upi://"
        has_pa == PaStarts(x) # {}
        pa == IF has_pa THEN UpiId(x) ELSE << >>
    IN  [length |-> StrLen(x),
         entropy |-> <<"entropy of", x>>,
         has_upi |-> Bit(has_upi),
         num_params |-> CountTok(x, "&"),
         suspicious_keywords |->
             Cardinality({k \in {"urgent", "payment", "offer"} :
                             Contains(x, k)}),
         valid_upi_format |-> IF has_upi THEN Bit(is_valid_upi(x)) ELSE NoKey,
         pa_length |-> IF has_upi THEN StrLen(pa) ELSE NoKey,
         has_valid_pa |->
             IF has_upi
             THEN Bit((\E i \in 1..Len(pa) : pa[i] = "@")
                      /\ (\E i \in 1..Len(pa) : pa[i] \in DotTokens))
             ELSE NoKey,
         has_amount |-> IF has_upi THEN Bit(\E i \in 1..Len(x) : x[i] = "am=")
                        ELSE NoKey]

\* predict below the cache lookup, when the model call returns
MlResult(x, m, lat) ==
    LET features == ml_extract_features(x)
        p0 == m.proba[x]
        p1 == IF features.suspicious_keywords > 2
              THEN Min(p0 + ML_KEYWORD_BUMP, SCALE_MAX) ELSE p0
        proba == IF features.has_upi = 1 /\ features.has_valid_pa = 1
                    /\ features.has_amount = 1
                 THEN Max(p1 - ML_UPI_RELIEF, 0) ELSE p1
    IN  [risk_score |-> proba,
         risk_level |-> IF proba > ML_HIGH_ABOVE THEN "High"
                        ELSE IF proba > ML_MEDIUM_ABOVE THEN "Medium"
                        ELSE "Low",
         features |-> features,
         recommendation |-> IF proba > ML_HIGH_ABOVE THEN "Block"
                            ELSE IF proba > ML_MEDIUM_ABOVE THEN "Verify"
                            ELSE "Allow",
         latency_ms |-> lat,
         cached |-> NoKey]

\* generic_exception_handler: the rule-based answer given when a handler
\* raised
ML_BAD_UPI == 80            \* risk_score = 80
ML_FALLBACK_BASE == 30      \* 30 + suspicious_count * 20
ML_FALLBACK_STEP == 20
ML_FALLBACK_MAX == 100
ML_FALLBACK_HIGH == 70      \* risk_score > 70
ML_FALLBACK_MEDIUM == 30    \* risk_score > 30
MlFallback(x) ==
    LET n == Cardinality({k \in {"urgent", "payment", "offer"} :
                             Contains(x, k)})
        risk_score ==
            IF \E i \in 1..Len(x) : x[i] = "upi://"
            THEN IF ~is_valid_upi(x) THEN ML_BAD_UPI
                 ELSE Min(ML_FALLBACK_BASE + n * ML_FALLBACK_STEP,
                          ML_FALLBACK_MAX)
            ELSE 0
    IN  [error |-> "Model prediction failed, using fallback rules",
         risk_score |-> risk_score,
         risk_level |-> IF risk_score > ML_FALLBACK_HIGH THEN "High"
                        ELSE IF risk_score > ML_FALLBACK_MEDIUM THEN "Medium"
                        ELSE "Low",
         fallback |-> TRUE, latency_ms |-> 0, cached |-> NoKey]

\* POST /predict
MlPredict ==
    /\ service = "ml"
    /\ \E x \in Texts, lat \in Latencies :
          /\ pending[x] > 0
          /\ IF CacheLive(ml_cache, x, Now)
             THEN /\ Scored(x, [CacheGet(ml_cache, x, Now)
                                   EXCEPT !.cached = "True",
                                          !.latency_ms = lat],
                            TRUE, FALSE, FALSE)
                  /\ UNCHANGED ml_cache
             ELSE IF ml_model.proba[x] = RAISES
             THEN /\ Scored(x, MlFallback(x), FALSE, TRUE, FALSE)
                  /\ UNCHANGED ml_cache
             ELSE IF ml_extract_features(x).has_upi = 1
             THEN /\ ml_cache' = CacheSet(ml_cache, x,
                                          MlResult(x, ml_model, lat), Now)
                  /\ Scored(x, MlResult(x, ml_model, lat), FALSE, TRUE, TRUE)
             ELSE /\ Scored(x, MlResult(x, ml_model, lat), FALSE, TRUE, FALSE)
                  /\ UNCHANGED ml_cache
    /\ UNCHANGED <<ml_model, enh_vars, opt_vars>>

\* POST /feedback: model.learn_one updates the model in place and may
\* raise; the cache entry is dropped after it
MlFeedback ==
    /\ service = "ml"
    /\ \E x \in {t \in Texts : InScope(t)}, is_scam \in BOOLEAN,
          f \in BrokenBehaviours, learned \in BOOLEAN :
          LET cache2 == IF learned /\ CacheLive(ml_cache, x, Now)
                        THEN CacheDelete(ml_cache, x) ELSE ml_cache
          IN  /\ ml_model' = [seen |-> ml_model.seen + 1, proba |-> f]
              /\ ml_cache' = cache2
              /\ resp' = [op |-> "feedback", text |-> x, http |-> 200,
                          status |-> IF learned THEN "model_updated"
                                     ELSE "fallback",
                          example |-> [text |-> x, label |-> Bit(is_scam)],
                          due |-> FALSE,
                          retrain |-> "none"]
              /\ FedBack(x, ml_cache, cache2, learned, FALSE)
    /\ UNCHANGED <<fits, retrains, enh_vars, opt_vars>>

\* ------------------------------------------------------------ start-up
\* qr_data.json as a deployment that has collected feedback ships it: the
\* built-in examples and 21 more
OptSeededData ==
    [i \in 1..24 |->
        IF i <= 3 THEN opt_default_data[i]
        ELSE [features |-> opt_extract_features(IF i % 2 = 0 THEN T_UPI
                                                ELSE T_URL),
              label |-> i % 2]]

\* enhanced_qr_data.json after two feedback calls
EnhGrownData ==
    enh_default_data \o
    << [text |-> T_UPI, label |-> 0, reason |-> "None", timestamp |-> "time.time()"],
       [text |-> T_URL, label |-> 1, reason |-> "None", timestamp |-> "time.time()"] >>

\* create_or_load_models: text_model is the loaded or freshly trained
\* pipeline, or None when both loading and training failed
EnhInit ==
    /\ enh_cache = [t \in Texts |-> NoEntry]
    /\ text_model \in {NoModel} \cup
           {[vec |-> FromFile, clf |-> FromFile, proba |-> f] :
               f \in FittedBehaviours}
    /\ enh_data_file \in {Absent, File(EnhGrownData)}

\* module start of optimized_qr_scanner: the model is loaded from
\* model.joblib, or fitted on load_data() and both files are written
OptInit ==
    /\ opt_cache = [t \in Texts |-> NoEntry]
    /\ \E f \in FittedBehaviours :
          \/ /\ model = [vec |-> FromFile, clf |-> FromFile, proba |-> f]
             /\ opt_model_file = model
             /\ opt_data_file \in {Absent, File(opt_default_data),
                                   File(OptSeededData)}
          \/ /\ opt_data_file \in {File(opt_default_data),
                                   File(OptSeededData)}
             /\ model = [vec |-> Len(opt_data_file.content),
                         clf |-> Len(opt_data_file.content), proba |-> f]
             /\ opt_model_file = model

MlInit ==
    /\ ml_cache = [t \in Texts |-> NoEntry]
    /\ ml_model \in {[seen |-> 0, proba |-> f] : f \in BrokenBehaviours}

\* the variables of a service that is not the one running
TxnOff ==
    /\ device_risk_scores = EmptyMap
    /\ ip_risk_scores = EmptyMap
    /\ vpa_risk_scores = EmptyMap
EnhOff ==
    /\ enh_cache = [t \in Texts |-> NoEntry]
    /\ text_model = NoModel
    /\ enh_data_file = Absent
OptOff ==
    /\ opt_cache = [t \in Texts |-> NoEntry]
    /\ model = NoModel
    /\ opt_model_file = NoModel
    /\ opt_data_file = Absent
MlOff ==
    /\ ml_cache = [t \in Texts |-> NoEntry]
    /\ ml_model = NoModel
\* no process() call was made
MaxCallers == 3
BATCH_SIZE_DEFAULT == 32    \* max_batch_size=32
Callers == 1..MaxCallers
NewCoro == [pc |-> "new", qr_text |-> T_EMPTY, raised |-> FALSE,
            results |-> << >>]
BpIdle ==
    /\ coros = [c \in Callers |-> NewCoro]
    /\ timers = << >>
    /\ predicted = << >>
BpOff ==
    /\ batch_processor = [batch |-> << >>,
                          max_batch_size |-> BATCH_SIZE_DEFAULT]
    /\ BpIdle

Init ==
    /\ \/ service = "enhanced" /\ EnhInit /\ OptOff /\ MlOff
       \/ service = "optimized" /\ EnhOff /\ OptInit /\ MlOff
       \/ service = "ml" /\ EnhOff /\ OptOff /\ MlInit
    /\ now = 0
    /\ pending = [t \in Texts |-> 0]
    /\ asked = {}
    /\ resp = NoResp
    /\ calls = [t \in Texts |-> 0]
    /\ evals = [t \in Texts |-> 0]
    /\ conc = [t \in Texts |-> FALSE]
    /\ dirty = [t \in Texts |-> FALSE]
    /\ last = [t \in Texts |-> NoLast]
    /\ n_req = 0 /\ n_fb = 0 /\ fits = 0 /\ retrains = 0 /\ streak = 0
    /\ TxnOff
    /\ probe = NoProbe
    /\ BpOff

Next ==
    \/ \E x \in Texts : Arrive(x)
    \/ Tick
    \/ EnhPredict
    \/ n_fb < MaxFeedback /\ EnhFeedback
    \/ OptPredict
    \/ n_fb < MaxFeedback /\ OptFeedback
    \/ MlPredict
    \/ n_fb < MaxFeedback /\ MlFeedback

Spec == Init /\ [][Next]_vars

\* a long run of feedback calls to the optimized service, nothing else
BurstInit == Init /\ service = "optimized"
BurstNext == n_fb < MaxBurst /\ OptFeedback
BurstSpec == BurstInit /\ [][BurstNext]_vars
\* ================================================================ claims
IsPrefix(a, b) == Len(a) <= Len(b) /\ SubSeq(b, 1, Len(a)) = a

\* the examples a data file holds
Persisted(file) == IF file \in {Absent, Corrupt} THEN << >> ELSE file.content

FeedbackStep == n_fb' = n_fb + 1

\* C1 as stated: in the enhanced and the optimized service, the scoring
\* calls for one text that find no live cache entry and run while the entry
\* written for them is live cause exactly one heuristic+model evaluation.
C1_ExactlyOneEvaluation ==
    service \in {"enhanced", "optimized"} =>
        \A x \in Texts : calls[x] >= 1 => evals[x] = 1

\* C1 amended: the evaluation runs at most once for every text and exactly
\* once for every text but the empty one in analyze_qr (which is answered
\* without evaluation and without a cache entry); a call answered from the
\* cache returns the result that the one evaluation published.
C1_SingleFlight ==
    service \in {"enhanced", "optimized"} =>
        /\ \A x \in Texts :
              /\ evals[x] <= 1
              /\ (calls[x] >= 1 /\ ~(service = "enhanced" /\ x = T_EMPTY))
                    => evals[x] = 1
        /\ (resp.op = "score" /\ resp.hit) =>
              /\ SvcCache[resp.text] # NoEntry
              /\ Core(resp.result) = Core(SvcCache[resp.text].value)

\* two requests for one text waited together, both were served, one
\* evaluation ran
C1_Witness ==
    /\ service = "enhanced"
    /\ \E x \in Texts \ {T_EMPTY} :
          calls[x] = 2 /\ evals[x] = 1 /\ conc[x] /\ pending[x] = 0
    /\ resp.op = "score" /\ resp.hit

\* C2: in the enhanced service and in qr_scan_ml_service no scoring call is
\* answered from a cache entry that was written before a feedback call for
\* the same text returned; the first scoring call after the feedback is
\* computed afresh.
C2_FeedbackInvalidates ==
    (service \in {"enhanced", "ml"} /\ resp.op = "score") =>
        /\ ~resp.stale
        /\ resp.after_fb => ~resp.hit

\* a scoring call that followed feedback given while the text had an entry
C2_Witness ==
    /\ service = "enhanced"
    /\ resp.op = "score" /\ resp.after_fb /\ ~resp.hit
    /\ resp.text # T_EMPTY

\* C3: in the optimized service no predict call is answered from a cache
\* entry that was written before a feedback call for the same text
\* returned.
C3_FeedbackInvalidates ==
    (service = "optimized" /\ resp.op = "score") => ~resp.stale

\* C4 as stated: an analyze_qr call that follows another one for the same
\* text by less than 300 seconds, with no feedback in between, returns the same
\* result up to cached and latency_ms.
C4_Idempotent ==
    (service = "enhanced" /\ resp.op = "score" /\ resp.prev # NoValue) =>
        Core(resp.result) = Core(resp.prev)

\* C4 amended: the two results agree up to cached and latency_ms provided
\* the cache entry of the text does not expire between the two calls, that
\* is, unless the first call was answered from the cache and the second
\* one had to compute.
C4_IdempotentWhileEntryLives ==
    (service \in {"enhanced", "ml"} /\ resp.op = "score"
        /\ resp.prev # NoValue
        /\ ~(resp.prev.cached = "True" /\ ~resp.hit)) =>
        Core(resp.result) = Core(resp.prev)

\* a second call within 300 seconds that was answered from the cache
C4_Witness ==
    /\ service = "enhanced"
    /\ resp.op = "score" /\ resp.prev # NoValue /\ resp.hit
    /\ resp.text = T_URL
    /\ resp.result.reasons # << >>

\* C5: in the enhanced service the text model has been retrained once for
\* every multiple of 10 that the number of recorded examples has reached.
C5_RetrainOncePerCrossing ==
    service = "enhanced" =>
        retrains = Len(enh_load_data(enh_data_file)) \div ENH_RETRAIN_EVERY

\* C6: in the optimized service there are never 25 successful feedback
\* calls in a row without a retrain.
C6_RetrainEvery25 ==
    service = "optimized" => streak < OPT_RETRAIN_EVERY

\* C7: a feedback call to the optimized service that returns normally
\* leaves load_data() one example longer, the new example last.
C7_AppendOnly ==
    [][(service = "optimized" /\ FeedbackStep /\ resp'.http = 200) =>
          opt_data_file' # Corrupt
          /\ opt_load_data(opt_data_file')
                = Append(opt_load_data(opt_data_file), resp'.example)]_vars

\* C8: a feedback call to the enhanced service that returns
\* feedback_recorded leaves a training log that holds the example and
\* every example the log held before.
C8_AppendOnly ==
    [][(service = "enhanced" /\ FeedbackStep
            /\ resp'.status = "feedback_recorded") =>
          /\ IsPrefix(Persisted(enh_data_file), Persisted(enh_data_file'))
          /\ \E i \in 1..Len(Persisted(enh_data_file')) :
                Persisted(enh_data_file')[i] = resp'.example]_vars

\* C9: a feedback call whose retrain fails leaves the model object that
\* predictions use as it was before the call.
C9_FailedRetrainKeepsModel ==
    [][(FeedbackStep /\ resp'.retrain = "failed") =>
          (text_model' = text_model /\ model' = model)]_vars

\* C10: a feedback call whose retrain fails still returns its success
\* response, and its example is in the training data.
C10_RetrainFailureHidden ==
    (resp.op = "feedback" /\ resp.retrain = "failed") =>
        /\ resp.http = 200
        /\ (service = "enhanced" =>
              \E i \in 1..Len(Persisted(enh_data_file)) :
                 Persisted(enh_data_file)[i] = resp.example)
        /\ (service = "optimized" =>
              \E i \in 1..Len(Persisted(opt_data_file)) :
                 Persisted(opt_data_file)[i] = resp.example)

\* C11: scoring never waits for retraining: a step in which feedback runs
\* fit() leaves no scoring request waiting, that is, no request that reached
\* the server sits through a whole retrain before its handler is started.
C11_ScoringNeverWaits ==
    [][(fits' = fits + 1) => \A x \in Texts : pending'[x] = 0]_vars

\* C12: cache TTL in the enhanced and the optimized service: a scoring call
\* is answered from the cache only before the entry's write time plus 300
\* seconds and leaves the entry as it is (a read does not extend it); a call
\* at or after that time computes the result; an entry that a call writes
\* expires 300 seconds after the call.
C12_CacheTTL ==
    [][\A x \in Texts :
          (service \in {"enhanced", "optimized"} /\ calls'[x] = calls[x] + 1)
          => /\ resp'.hit =>
                   /\ SvcCache[x] # NoEntry
                   /\ Now < SvcCache[x].expire_time
                   /\ SvcCache'[x] = SvcCache[x]
             /\ (SvcCache[x] # NoEntry /\ Now >= SvcCache[x].expire_time) =>
                   (~resp'.hit /\ evals'[x] = evals[x] + 1)
             /\ SvcCache'[x] # SvcCache[x] =>
                   SvcCache'[x].expire_time = Now + CACHE_TTL]_vars

\* an entry was read, expired 300 seconds after it was written, and the
\* next call computed and wrote a new one
C12_Witness ==
    /\ service = "enhanced"
    /\ resp.op = "score" /\ ~resp.hit
    /\ resp.prev # NoValue /\ resp.prev.cached = "True"
    /\ Now = CACHE_TTL
    /\ enh_cache[resp.text] # NoEntry
    /\ enh_cache[resp.text].expire_time = Now + CACHE_TTL

\* ============================================ scorers called on their own
\* The scoring functions below the cache lookups, applied to arguments that
\* are fixed at the start: probe holds the arguments, then the return value.
T_HTTPS == <<"https://", "example.com", "/", "shop">>
T_PLAIN == <<"hello">>
\* "httphello": begins with "http" and is no URL
T_HTTP_WORD == <<"http", "hello">>
PureTexts == {T_EMPTY, T_UPI, T_SCAM_UPI, T_URL, T_HTTPS, T_PLAIN, D3,
              T_HTTP_WORD}

\* what predict_proba(...)[0][1] returns, in 1/10000
ProbaGrid == {0, 1000, 2996, 3000, 3999, 4000, 4996, 5000, 6996, 7000,
              10000}
\* the model global is None
NONE_LOADED == -2
ModelCases == ProbaGrid \cup {RAISES, NONE_LOADED}
ProbeModel(p) ==
    IF p = NONE_LOADED THEN NoModel
    ELSE [vec |-> FromFile, clf |-> FromFile,
          proba |-> [t \in PureTexts |-> p]]

\* check_safe_browsing_api: configured is whether the API key is set,
\* outcome what requests.post / response.json() did
SbCallOutcomes == {"timeout", "raises", "clean", "match"}
\* a lookup that reports a threat when it could not be made
check_safe_browsing_api_closed(url, configured, outcome) ==
    IF configured /\ outcome \in {"clean", "match"}
    THEN [checked |-> TRUE, is_unsafe |-> outcome = "match"]
    ELSE [checked |-> FALSE, is_unsafe |-> TRUE]
check_safe_browsing_api(url, configured, outcome) ==
    IF ~configured
       \/ ~(StartsWith(url, "http://") \/ StartsWith(url, "https://"))
    THEN SbUnchecked
    ELSE CASE outcome = "clean" -> [checked |-> TRUE, is_unsafe |-> FALSE]
           [] outcome = "match" -> [checked |-> TRUE, is_unsafe |-> TRUE]
           [] OTHER -> SbUnchecked

\* analyze_qr when the cache has no entry for the text
EnhAnswer(x, m, sb, lat) ==
    IF x = T_EMPTY THEN EmptyResult ELSE ComputeResult(x, m, sb, lat)

\* ------------------------------------------------------ qr_scam_service
SCAM_RULE_INVALID == 9000   \* 'probability': 0.9
SCAM_RULE_KEYWORD == 8000   \* 'probability': 0.8
SCAM_RULE_SAFE == 2000      \* 'probability': 0.2
SCAM_UPI_RELIEF == 15       \* risk_score - 15
SCAM_UPI_MIN == 10          \* max(10, ...)
SCAM_ERROR_SCORE == 50      \* 'risk_score': 50

\* tokens made of [a-zA-Z0-9.\-] only, and of [a-zA-Z] only
VpaHandleTokens == {"7357802287", "urgent", "-", "verify", "hack.in",
                    "example.com", "hello", "shop", "login", "kyc", "http",
                    "verification.co"}
AlphaTokens == {"superyes", "urgent", "verify", "hello", "shop", "login", "http",
                "kyc"}

\* extract_upi_info: the pa= value when the text has "pa=", else the
\* tokens around the first "@"
extract_upi_info(x) ==
    [bene_vpa |->
        IF \E i \in 1..Len(x) : x[i] = "pa="
        THEN IF PaStarts(x) # {} THEN UpiId(x) ELSE << >>
        ELSE LET ats == {i \in 2..(Len(x) - 1) : x[i] = "@"}
             IN  IF ats = {} THEN << >>
                 ELSE LET a == CHOOSE i \in ats : \A j \in ats : i <= j
                      IN  SubSeq(x, a - 1, a + 1)]

\* re.match(VALID_UPI_REGEX, vpa): 3 or more handle characters, "@", 3 or
\* more letters
valid_upi_vpa(vpa) ==
    /\ Len(vpa) >= 3
    /\ vpa[Len(vpa) - 1] = "@"
    /\ vpa[Len(vpa)] \in AlphaTokens
    /\ \A i \in 1..(Len(vpa) - 2) : vpa[i] \in VpaHandleTokens
    /\ StrLen(SubSeq(vpa, 1, Len(vpa) - 2)) >= 3

scam_rule_keywords == {"urgent", "verify", "login", "kyc", "block", "expired"}

\* QRScamModel._rule_based_check
rule_based_check(bene_vpa, x) ==
    IF ~valid_upi_vpa(bene_vpa) THEN SCAM_RULE_INVALID
    ELSE IF \E k \in scam_rule_keywords : Contains(x, k)
         THEN SCAM_RULE_KEYWORD ELSE SCAM_RULE_SAFE

\* QRScamModel.predict: p is what the trained forest answers, NONE_LOADED
\* when no model file was loaded
scam_model_predict(p, x) ==
    IF p = NONE_LOADED
    THEN rule_based_check(extract_upi_info(x).bene_vpa, x)
    ELSE p

\* a predict that leaves the UPI relief unbounded below
ScamAnswerNoMin(x, p) ==
    IF p = RAISES THEN SCAM_ERROR_SCORE
    ELSE LET risk_score == scam_model_predict(p, x) \div 100
         IN  IF (\E i \in 1..Len(x) : x[i] = "upi://")
                /\ ~\E k \in {"urgent", "verify", "kyc"} : Contains(x, k)
             THEN risk_score - SCAM_UPI_RELIEF
             ELSE risk_score
\* predict: the risk_score it returns, in points
ScamAnswer(x, p) ==
    IF p = RAISES THEN SCAM_ERROR_SCORE
    ELSE LET risk_score == scam_model_predict(p, x) \div 100
         IN  IF (\E i \in 1..Len(x) : x[i] = "upi://")
                /\ ~\E k \in {"urgent", "verify", "kyc"} : Contains(x, k)
             THEN Max(SCAM_UPI_MIN, risk_score - SCAM_UPI_RELIEF)
             ELSE risk_score

\* qr_scan_ml_service predict below the cache lookup: the handler's answer,
\* or the exception handler's when the model call raised
MlAnswer(x, m, lat) ==
    IF m.proba[x] = RAISES THEN MlFallback(x) ELSE MlResult(x, m, lat)

\* ------------------------------------------------- the calls that are made
\* the arguments of one call of each payload scorer
EnhCalls ==
    [kind : {"analyze_qr"}, text : PureTexts, p : ModelCases,
     configured : BOOLEAN, outcome : SbCallOutcomes, lat : Latencies]
OptCalls ==
    [kind : {"optimized_predict"}, text : PureTexts, p : ModelCases,
     lat : Latencies]
MlCalls ==
    [kind : {"ml_predict"}, text : PureTexts,
     p : ProbaGrid \cup {RAISES}, lat : Latencies]
ScamCalls ==
    [kind : {"scam_predict"}, text : PureTexts, p : ModelCases]

\* a call that has not run yet
Call(args) == [kind |-> args.kind, args |-> args, done |-> FALSE,
               out |-> NoValue]
Returned(r) == [probe EXCEPT !.done = TRUE, !.out = r]
Ready(kind) == probe.kind = kind /\ ~probe.done
Ran(kind) == probe.kind = kind /\ probe.done

scorer_frame ==
    <<service, now, pending, asked, enh_vars, opt_vars, ml_vars, resp,
      calls, evals, conc, dirty, last, n_req, n_fb, fits, retrains,
      streak, bp_vars>>

\* analyze_qr with an empty cache
EnhScore ==
    /\ Ready("analyze_qr")
    /\ LET a == probe.args
       IN  probe' = Returned(EnhAnswer(a.text, ProbeModel(a.p),
                        check_safe_browsing_api(a.text, a.configured,
                                                a.outcome),
                        a.lat))
    /\ UNCHANGED <<scorer_frame, txn_vars>>

\* optimized_qr_scanner predict with an empty cache
OptScore ==
    /\ Ready("optimized_predict")
    /\ LET a == probe.args
       IN  probe' = Returned(OptResult(a.text, ProbeModel(a.p), a.lat))
    /\ UNCHANGED <<scorer_frame, txn_vars>>

\* qr_scan_ml_service predict with an empty cache
MlScore ==
    /\ Ready("ml_predict")
    /\ LET a == probe.args
       IN  probe' = Returned(MlAnswer(a.text, ProbeModel(a.p), a.lat))
    /\ UNCHANGED <<scorer_frame, txn_vars>>

\* qr_scam_service predict
ScamScore ==
    /\ Ready("scam_predict")
    /\ LET a == probe.args
       IN  probe' = Returned([risk_score |-> ScamAnswer(a.text, a.p)])
    /\ UNCHANGED <<scorer_frame, txn_vars>>

\* --------------------------------------------- transaction_risk_scoring
\* Sub-scores are in 1/10000, weights in hundredths, so a risk_score is in
\* 1/100000 of a point: 10 points are 1000000.
TIME_NIGHT == 8000          \* return 0.8
TIME_LATE == 6000           \* return 0.6
TIME_EARLY == 4000          \* return 0.4
TIME_DAY == 2000            \* return 0.2
AMOUNT_TINY == 7000         \* return 0.7
AMOUNT_HUGE == 6000         \* return 0.6
AMOUNT_LARGE == 4000        \* return 0.4
AMOUNT_USUAL == 2000        \* return 0.2
DEFAULT_ENTITY_RISK == 3000 \* .get(device_id, 0.3)
STATUS_FAILED == 7000       \* 0.7 if status == 'FAILED'
STATUS_OTHER == 2000        \* else 0.2
MODEL_ERROR_RISK == 3000    \* ml_risk = 0.3 / anomaly_score = 0.3
ANOMALY_SCALE == 2          \* anomaly_score / 0.5
UNIT == 10000               \* the sub-score 1.0
W_TIME == 15                \* 0.15 * time_risk
W_AMOUNT == 20              \* 0.20 * amount_risk
W_DEVICE == 15              \* 0.15 * device_risk
W_IP == 10                  \* 0.10 * ip_risk
W_VPA == 15                 \* 0.15 * vpa_risk
W_STATUS == 10              \* 0.10 * status_risk
W_ML == 10                  \* 0.10 * ml_risk
W_ANOMALY == 5              \* 0.05 * anomaly_score
TXN_MEDIUM_AT == 300000     \* risk_score < 3
TXN_HIGH_AT == 700000       \* risk_score < 7
TXN_MAX == 1000000          \* the score 10

\* Python's None where a string is expected
PyNone == "None"
\* "if device_id": None and the empty string are false
Truthy(id) == id # PyNone /\ id # ""

get_time_risk(hour) ==
    IF 0 <= hour /\ hour < 6 THEN TIME_NIGHT
    ELSE IF 22 <= hour /\ hour < 24 THEN TIME_LATE
    ELSE IF 6 <= hour /\ hour < 8 THEN TIME_EARLY
    ELSE TIME_DAY

get_amount_risk(amount) ==
    IF amount < 10 THEN AMOUNT_TINY
    ELSE IF amount > 10000 THEN AMOUNT_HUGE
    ELSE IF amount > 5000 THEN AMOUNT_LARGE
    ELSE AMOUNT_USUAL

\* a lookup that enters the default under a key it did not find
dict_setdefault(d, k, dflt) ==
    IF k \in DOMAIN d THEN [value |-> d[k], dict |-> d]
    ELSE [value |-> dflt,
          dict |-> [j \in DOMAIN d \cup {k} |-> IF j = k THEN dflt ELSE d[j]]]
\* dict.get(k, dflt): the value, and the dict as the call leaves it
dict_get(d, k, dflt) ==
    [value |-> IF k \in DOMAIN d THEN d[k] ELSE dflt, dict |-> d]

get_device_risk(device_id) ==
    dict_get(device_risk_scores, device_id, DEFAULT_ENTITY_RISK)
get_ip_risk(ip_address) ==
    dict_get(ip_risk_scores, ip_address, DEFAULT_ENTITY_RISK)
get_vpa_risk(vpa) ==
    dict_get(vpa_risk_scores, vpa, DEFAULT_ENTITY_RISK)

\* transaction.get(key, None): NoKey stands for a key the dict lacks
TxnGet(v) == IF v = NoKey THEN PyNone ELSE v

\* "get_x_risk(id) if id else 0.3"
EntityRisk(looked_up, id, d) ==
    IF Truthy(id) THEN looked_up
    ELSE [value |-> DEFAULT_ENTITY_RISK, dict |-> d]

TxnLevel(risk_score) ==
    IF risk_score < TXN_MEDIUM_AT THEN "LOW"
    ELSE IF risk_score < TXN_HIGH_AT THEN "MEDIUM" ELSE "HIGH"

\* transaction['TXN_TIMESTAMP']: the key is missing, the value is a string
\* that strptime rejects, or a time of day (a datetime, or a string that
\* parses)
NoTimestamp == [absent |-> TRUE]
Garbled == [garbled |-> TRUE]
At(h) == [hour |-> h]

\* calculate_risk_score: clock is datetime.now() during the call, rf what
\* rf_model.predict_proba answers, iso what -iso_model.score_samples
\* answers for the features built on each day of the month (NONE_LOADED:
\* no model, RAISES: the call throws); the result, and the three maps as
\* the call leaves them
calculate_risk_score(transaction, rf, iso, clock) ==
    LET amount == transaction.AMOUNT
        hour == IF transaction.TXN_TIMESTAMP \in {NoTimestamp, Garbled}
                THEN clock.hour
                ELSE transaction.TXN_TIMESTAMP.hour
        device_id == TxnGet(transaction.DEVICE_ID)
        ip_address == TxnGet(transaction.IP_ADDRESS)
        payer_vpa == TxnGet(transaction.PAYER_VPA)
        status == IF transaction.TRN_STATUS = NoKey THEN "COMPLETED"
                  ELSE transaction.TRN_STATUS
        time_risk == get_time_risk(hour)
        amount_risk == get_amount_risk(amount)
        device == EntityRisk(get_device_risk(device_id), device_id,
                             device_risk_scores)
        ip == EntityRisk(get_ip_risk(ip_address), ip_address, ip_risk_scores)
        vpa == EntityRisk(get_vpa_risk(payer_vpa), payer_vpa, vpa_risk_scores)
        status_risk == IF status = "FAILED" THEN STATUS_FAILED
                       ELSE STATUS_OTHER
        ml_risk == IF rf = NONE_LOADED THEN 0
                   ELSE IF rf = RAISES THEN MODEL_ERROR_RISK ELSE rf
        anomaly_score ==
            IF iso[clock.day] = NONE_LOADED THEN 0
            ELSE IF iso[clock.day] = RAISES THEN MODEL_ERROR_RISK
            ELSE Min(Max(iso[clock.day] * ANOMALY_SCALE, 0), UNIT)
        risk_score == W_TIME * time_risk + W_AMOUNT * amount_risk
                      + W_DEVICE * device.value + W_IP * ip.value
                      + W_VPA * vpa.value + W_STATUS * status_risk
                      + W_ML * ml_risk + W_ANOMALY * anomaly_score
    IN  [result |->
            [risk_score |-> risk_score,
             risk_level |-> TxnLevel(risk_score),
             components |->
                 [time_risk |-> time_risk, amount_risk |-> amount_risk,
                  device_risk |-> device.value, ip_risk |-> ip.value,
                  vpa_risk |-> vpa.value, status_risk |-> status_risk,
                  ml_risk |-> ml_risk, anomaly_score |-> anomaly_score]],
         device_risk_scores |-> device.dict,
         ip_risk_scores |-> ip.dict,
         vpa_risk_scores |-> vpa.dict]

\* ------------------------------------------- api_integration: check_upi
UPI_FORMAT_SCORE == 750         \* "risk_score": 7.5, in hundredths
CHECK_UPI_DEFAULT_AMOUNT == 100 \* else 100.0
SHORT_HANDLE == 4               \* len(upi_handle) < 4
PATTERN_SHORT == 200000         \* pattern_risk += 2.0
PATTERN_DIGITS == 150000        \* pattern_risk += 1.5
PATTERN_PROVIDER == 100000      \* pattern_risk += 1.0
PATTERN_CAP == 300000           \* min(pattern_risk, 3.0)
CENT == 1000                    \* round(final_risk_score, 2)

known_providers == {"okaxis", "okicici", "okhdfcbank", "oksbi", "ybl", "axl",
                    "pytm", "paytm", "fbpay", "gpay", "ibl"}
DigitTokens == {"7357802287", "9876543210", "123"}
\* str.isdigit(): at least one character, digits only
IsDigit(x) == x # << >> /\ \A i \in 1..Len(x) : x[i] \in DigitTokens

\* a final score that is not capped
FinalRiskUncapped(risk_score, pattern_risk) ==
    risk_score + Min(pattern_risk, PATTERN_CAP)
\* final_risk_score: the scorer's score plus the capped pattern risk,
\* capped at 10
FinalRisk(risk_score, pattern_risk) ==
    Min(risk_score + Min(pattern_risk, PATTERN_CAP), TXN_MAX)

\* check_upi: clock is datetime.now(); amount 0 stands for an amount that
\* is None or 0. The response, and the maps as the call leaves them.
check_upi(request, clock, rf, iso) ==
    IF CountTok(request.upi_id, "@") # 1
    THEN [response |-> [status |-> "error", risk_score |-> UPI_FORMAT_SCORE,
                        risk_level |-> "HIGH"],
          device_risk_scores |-> device_risk_scores,
          ip_risk_scores |-> ip_risk_scores,
          vpa_risk_scores |-> vpa_risk_scores]
    ELSE LET at == CHOOSE i \in 1..Len(request.upi_id) :
                       request.upi_id[i] = "@"
             upi_handle == SubSeq(request.upi_id, 1, at - 1)
             upi_provider == SubSeq(request.upi_id, at + 1,
                                    Len(request.upi_id))
             transaction ==
                 [PAYER_VPA |-> "",
                  AMOUNT |-> IF request.amount # 0 THEN request.amount
                             ELSE CHECK_UPI_DEFAULT_AMOUNT,
                  DEVICE_ID |-> IF Truthy(request.device_id)
                                THEN request.device_id ELSE PyNone,
                  IP_ADDRESS |-> IF Truthy(request.ip_address)
                                 THEN request.ip_address ELSE PyNone,
                  TRN_STATUS |-> NoKey,
                  TXN_TIMESTAMP |-> At(clock.hour)]
             scored == calculate_risk_score(transaction, rf, iso, clock)
             pattern_risk ==
                 (IF StrLen(upi_handle) < SHORT_HANDLE THEN PATTERN_SHORT
                  ELSE 0)
                 + (IF IsDigit(upi_handle) THEN PATTERN_DIGITS ELSE 0)
                 + (IF Len(upi_provider) = 1
                       /\ Lower(upi_provider[1]) \in known_providers
                    THEN 0 ELSE PATTERN_PROVIDER)
             final_risk_score ==
                 FinalRisk(scored.result.risk_score, pattern_risk)
         IN  [response |->
                 [status |-> "success",
                  risk_score |-> RoundTo(final_risk_score, CENT),
                  risk_level |-> TxnLevel(final_risk_score),
                  risk_components |-> scored.result.components,
                  pattern_risk |-> pattern_risk],
              device_risk_scores |-> scored.device_risk_scores,
              ip_risk_scores |-> scored.ip_risk_scores,
              vpa_risk_scores |-> scored.vpa_risk_scores]

\* ------------------------------------------ the transaction calls made
EntityIds == {"e1", "e2"}
\* an id argument: the key is missing, None, empty, or names an entity
IdArgs == {NoKey, PyNone, ""} \cup EntityIds \cup {"e3"}
\* the risk maps _build_entity_risk_scores left: fraud rates by entity
RiskMaps ==
    {EmptyMap,
     [k \in {"e1"} |-> UNIT],
     [k \in EntityIds |-> IF k = "e1" THEN UNIT ELSE 0]}
Amounts == {0, 5, 100, 5001, 10001}
Hours == {0, 6, 8, 22}
\* datetime.now(): the hour, and the day of the month
Days == {1, 2}
Clocks == [hour : {3, 12}, day : Days]
\* predict_proba's answer, and -score_samples' answer on each day
RfCases == {NONE_LOADED, RAISES, 0, 8960, UNIT}
IsoCases == {[d \in Days |-> NONE_LOADED], [d \in Days |-> RAISES],
             [d \in Days |-> 2500],
             [d \in Days |-> IF d = 1 THEN -2000 ELSE 8000]}

TxnCalls ==
    [kind : {"calculate_risk_score"},
     transaction : [AMOUNT : {5, 10001}, TXN_TIMESTAMP : {At(0), At(8)},
                    DEVICE_ID : IdArgs, IP_ADDRESS : IdArgs,
                    PAYER_VPA : IdArgs, TRN_STATUS : {NoKey, "FAILED"}],
     rf : {NONE_LOADED, UNIT},
     iso : {[d \in Days |-> NONE_LOADED],
            [d \in Days |-> IF d = 1 THEN -2000 ELSE 8000]},
     clock : {[hour |-> 12, day |-> 2]}]
    \cup
    [kind : {"calculate_risk_score"},
     transaction : [AMOUNT : Amounts,
                    TXN_TIMESTAMP : {NoTimestamp, Garbled}
                                    \cup {At(h) : h \in Hours},
                    DEVICE_ID : {"e1"}, IP_ADDRESS : {NoKey},
                    PAYER_VPA : {"e2"},
                    TRN_STATUS : {NoKey, "COMPLETED", "FAILED"}],
     rf : RfCases, iso : IsoCases, clock : Clocks]
UpiIds == {<<"kshitijmeena", "@", "okaxis">>, <<"abc", "@", "ybl">>,
           <<"123", "@", "superyes">>, <<"7357802287", "@", "superyes">>,
           <<"hello">>, <<"abc", "@", "ybl", "@", "ybl">>}
CheckUpiCalls ==
    [kind : {"check_upi"},
     request : [upi_id : UpiIds, amount : {0, 5, 10001},
                device_id : {PyNone, "", "e1"}, ip_address : {PyNone, "e1"}],
     clock : [hour : Hours, day : {2}], rf : RfCases, iso : IsoCases]
LookupCalls ==
    [kind : {"get_device_risk", "get_ip_risk", "get_vpa_risk"},
     id : {PyNone, ""} \cup EntityIds \cup {"e3"}]

\* calculate_risk_score called on its own
TxnScore ==
    /\ Ready("calculate_risk_score")
    /\ LET a == probe.args
           r == calculate_risk_score(a.transaction, a.rf, a.iso, a.clock)
       IN  /\ probe' = Returned(r.result)
           /\ device_risk_scores' = r.device_risk_scores
           /\ ip_risk_scores' = r.ip_risk_scores
           /\ vpa_risk_scores' = r.vpa_risk_scores
    /\ UNCHANGED scorer_frame

\* POST /api/check-upi
CheckUpi ==
    /\ Ready("check_upi")
    /\ LET a == probe.args
           r == check_upi(a.request, a.clock, a.rf, a.iso)
       IN  /\ probe' = Returned(r.response)
           /\ device_risk_scores' = r.device_risk_scores
           /\ ip_risk_scores' = r.ip_risk_scores
           /\ vpa_risk_scores' = r.vpa_risk_scores
    /\ UNCHANGED scorer_frame

\* get_device_risk, get_ip_risk or get_vpa_risk called on its own
Lookup ==
    /\ probe.kind \in {"get_device_risk", "get_ip_risk", "get_vpa_risk"}
    /\ ~probe.done
    /\ LET id == probe.args.id
           r == CASE probe.kind = "get_device_risk" -> get_device_risk(id)
                  [] probe.kind = "get_ip_risk" -> get_ip_risk(id)
                  [] OTHER -> get_vpa_risk(id)
       IN  /\ probe' = Returned([value |-> r.value])
           /\ device_risk_scores' =
                  IF probe.kind = "get_device_risk" THEN r.dict
                  ELSE device_risk_scores
           /\ ip_risk_scores' =
                  IF probe.kind = "get_ip_risk" THEN r.dict
                  ELSE ip_risk_scores
           /\ vpa_risk_scores' =
                  IF probe.kind = "get_vpa_risk" THEN r.dict
                  ELSE vpa_risk_scores
    /\ UNCHANGED scorer_frame

\* ------------------------------- enhanced_qr_scanner with a failing cache
MaxBatch == 3               \* texts in one batch request
BATCH_ERROR_SCORE == 500    \* "risk_score": 50, in tenths
HTTP_ERROR == 500           \* HTTPException(status_code=500, ...)

\* what the cache does during one analyze_qr call: it works, cache.get
\* raises, or cache.set raises (diskcache raises Timeout and sqlite errors)
CacheFaults == {"none", "get", "set"}
Raised == [raised |-> TRUE]

\* analyze_qr on cache c at time t, sb being whether the API key is set
\* and what the Safe Browsing request does: what the call returns (or
\* Raised when an exception leaves it) and the cache as it leaves it
analyze_qr_call(c, x, m, sb, lat, fault, t) ==
    IF fault = "get" THEN [out |-> Raised, cache |-> c]
    ELSE LET cached_result == CacheGet(c, x, t)
             result == ComputeResult(x, m,
                           check_safe_browsing_api(x, sb.configured,
                                                   sb.outcome),
                           lat)
         IN  IF cached_result # NoValue
             THEN [out |-> enh_cached_answer(cached_result), cache |-> c]
             ELSE IF x = T_EMPTY
             THEN [out |-> EmptyResult, cache |-> c]
             ELSE IF fault = "set" THEN [out |-> Raised, cache |-> c]
             ELSE [out |-> result, cache |-> CacheSet(c, x, result, t)]

\* POST /predict: the result, or status 500 when analyze_qr raised
predict_call(c, x, m, sb, lat, fault, t) ==
    [analyze_qr_call(c, x, m, sb, lat, fault, t) EXCEPT
        !.out = IF @ = Raised
                THEN [status_code |-> HTTP_ERROR, detail |-> "Analysis failed"]
                ELSE @]

\* {"qr_text": qr_text, **result}
WithText(x, result) ==
    [f \in DOMAIN result \cup {"qr_text"} |->
        IF f = "qr_text" THEN x ELSE result[f]]

\* a batch loop that leaves out the items whose analysis raised
BatchAppendAnalysed(results, x, out) ==
    IF out = Raised THEN results
    ELSE Append(results, WithText(x, out))
\* results.append(...): the result with its text, or the placeholder when
\* analyze_qr raised
BatchAppend(results, x, out) ==
    IF out = Raised
    THEN Append(results, [qr_text |-> x, error |-> "str(e)",
                          risk_score |-> BATCH_ERROR_SCORE,
                          risk_level |-> "unknown"])
    ELSE Append(results, WithText(x, out))

\* batch_predict's loop from item i on: the results list and the cache
RECURSIVE BatchLoop(_, _, _, _, _, _, _, _, _)
BatchLoop(qr_texts, faults, i, m, sb, lat, t, c, results) ==
    IF i > Len(qr_texts) THEN [out |-> [results |-> results], cache |-> c]
    ELSE LET r == analyze_qr_call(c, qr_texts[i], m, sb, lat, faults[i], t)
         IN  BatchLoop(qr_texts, faults, i + 1, m, sb, lat, t, r.cache,
                       BatchAppend(results, qr_texts[i], r.out))

\* POST /batch-predict
batch_predict(c, qr_texts, faults, m, sb, lat, t) ==
    BatchLoop(qr_texts, faults, 1, m, sb, lat, t, c, << >>)

\* the calls made: one text, or a batch of up to MaxBatch texts with what
\* the cache does during each item
PredictCalls ==
    [kind : {"predict"}, text : Texts, p : {NONE_LOADED, 2000, 8000},
     configured : BOOLEAN, outcome : {"timeout", "match"},
     lat : Latencies, fault : CacheFaults]
BatchCalls ==
    UNION {[kind : {"batch_predict"}, qr_texts : [1..n -> Texts],
            faults : [1..n -> CacheFaults], p : {NONE_LOADED, 8000},
            configured : {TRUE}, outcome : {"timeout", "match"},
            lat : {2}] : n \in 0..MaxBatch}

\* POST /predict with a cache that may fail
PredictCall ==
    /\ Ready("predict")
    /\ \E r \in {predict_call(enh_cache, probe.args.text,
                    ProbeModel(probe.args.p),
                    [configured |-> probe.args.configured,
                     outcome |-> probe.args.outcome],
                    probe.args.lat, probe.args.fault, Now)} :
          /\ probe' = Returned(r.out)
          /\ enh_cache' = r.cache
    /\ UNCHANGED <<service, now, pending, asked, text_model, enh_data_file,
                   opt_vars, ml_vars, resp, calls, evals, conc, dirty, last,
                   n_req, n_fb, fits, retrains, streak, txn_vars, bp_vars>>

\* POST /batch-predict with a cache that may fail
BatchPredict ==
    /\ Ready("batch_predict")
    /\ \E r \in {batch_predict(enh_cache, probe.args.qr_texts,
                    probe.args.faults, ProbeModel(probe.args.p),
                    [configured |-> probe.args.configured,
                     outcome |-> probe.args.outcome],
                    probe.args.lat, Now)} :
          /\ probe' = Returned(r.out)
          /\ enh_cache' = r.cache
    /\ UNCHANGED <<service, now, pending, asked, text_model, enh_data_file,
                   opt_vars, ml_vars, resp, calls, evals, conc, dirty, last,
                   n_req, n_fb, fits, retrains, streak, txn_vars, bp_vars>>

\* ------------------------------------------------ the scorers on their own
ScorerInit ==
    /\ service = "scorers"
    /\ EnhOff /\ OptOff /\ MlOff
    /\ BpOff
    /\ now = 0
    /\ pending = [t \in Texts |-> 0]
    /\ asked = {}
    /\ resp = NoResp
    /\ calls = [t \in Texts |-> 0]
    /\ evals = [t \in Texts |-> 0]
    /\ conc = [t \in Texts |-> FALSE]
    /\ dirty = [t \in Texts |-> FALSE]
    /\ last = [t \in Texts |-> NoLast]
    /\ n_req = 0 /\ n_fb = 0 /\ fits = 0 /\ retrains = 0 /\ streak = 0
    /\ \E args \in EnhCalls \cup OptCalls \cup MlCalls \cup ScamCalls
                   \cup TxnCalls \cup CheckUpiCalls \cup LookupCalls
                   \cup PredictCalls \cup BatchCalls :
          /\ probe = Call(args)
          /\ IF args.kind \in {"calculate_risk_score", "check_upi",
                               "get_device_risk", "get_ip_risk",
                               "get_vpa_risk"}
             THEN /\ device_risk_scores \in RiskMaps
                  /\ ip_risk_scores = device_risk_scores
                  /\ vpa_risk_scores = device_risk_scores
             ELSE TxnOff

ScorerNext ==
    \/ EnhScore
    \/ OptScore
    \/ MlScore
    \/ ScamScore
    \/ TxnScore
    \/ CheckUpi
    \/ Lookup
    \/ PredictCall
    \/ BatchPredict

ScorerSpec == ScorerInit /\ [][ScorerNext]_vars

\* C13: payload score bound: for every text, every model probability in
\* [0,1] (and a missing or raising model), every heuristic outcome and every
\* Safe Browsing outcome, the risk_score returned by enhanced analyze_qr,
\* by optimized predict and by qr_scam_service predict lies in [0,100]
\* (analyze_qr's score is held in tenths, optimized predict's in
\* hundredths, qr_scam_service's in whole points).
C13_PayloadScoreBound ==
    /\ Ran("analyze_qr") =>
          probe.out.risk_score \in 0..(SCALE_MAX \div 10)
    /\ Ran("optimized_predict") => probe.out.risk_score \in 0..SCALE_MAX
    /\ Ran("scam_predict") =>
          probe.out.risk_score \in 0..(SCALE_MAX \div 100)

\* analyze_qr ran on a flagged text with probability 1: the sum passed 100
\* and the score returned is 100
C13_Witness ==
    /\ Ran("analyze_qr")
    /\ probe.args.p = SCALE_MAX
    /\ apply_heuristic_checks(probe.args.text).is_suspicious
    /\ probe.out.risk_score = SCALE_MAX \div 10

\* the documented payload thresholds, on a score in hundredths of a point
DocumentedLevel(score) ==
    IF score < MEDIUM_AT THEN "low"
    ELSE IF score < HIGH_AT THEN "medium" ELSE "high"
\* a level name without its capitals
LevelName(l) ==
    CASE l = "High" -> "high" [] l = "Medium" -> "medium"
      [] l = "Low" -> "low" [] OTHER -> l

\* C14: in every scoring response the risk_level is the one the documented
\* thresholds give for the returned risk_score: on the payload scale below
\* 30 low, from 30 and below 70 medium, from 70 high (analyze_qr, given in
\* tenths, and qr_scan_ml_service predict, given in hundredths by the
\* handler and in points by the exception handler); on the transaction
\* scale below 3 LOW, below 7 MEDIUM, else HIGH (check_upi, given in
\* hundredths). Empty input and rounded scores included.
C14_LevelFromScore ==
    /\ Ran("analyze_qr") =>
          probe.out.risk_level = DocumentedLevel(probe.out.risk_score * 10)
    /\ Ran("ml_predict") =>
          LevelName(probe.out.risk_level) =
              DocumentedLevel(IF "fallback" \in DOMAIN probe.out
                              THEN probe.out.risk_score * 100
                              ELSE probe.out.risk_score)
    /\ Ran("check_upi") =>
          probe.out.risk_level = TxnLevel(probe.out.risk_score * CENT)


\* the sub-scores of a calculate_risk_score result
Components(r) ==
    {r.components.time_risk, r.components.amount_risk,
     r.components.device_risk, r.components.ip_risk, r.components.vpa_risk,
     r.components.status_risk, r.components.ml_risk,
     r.components.anomaly_score}

\* C15: structured-transaction score bound: for every transaction (amount,
\* hour, status, present or absent entity ids, model and anomaly outputs)
\* calculate_risk_score combines sub-scores that each lie in [0,1] with
\* weights that sum to exactly 1, so its risk_score lies in [0,10], and the
\* score check_upi returns after its adjustment is at most 10.
C15_TransactionScoreBound ==
    /\ W_TIME + W_AMOUNT + W_DEVICE + W_IP + W_VPA + W_STATUS + W_ML
       + W_ANOMALY = 100
    /\ Ran("calculate_risk_score") =>
          /\ \A c \in Components(probe.out) : 0 <= c /\ c <= UNIT
          /\ 0 <= probe.out.risk_score /\ probe.out.risk_score <= TXN_MAX
    /\ Ran("check_upi") =>
          /\ 0 <= probe.out.risk_score
          /\ probe.out.risk_score * CENT <= TXN_MAX

\* check_upi ran where the scorer's score plus the pattern risk passes 10,
\* and returned 10
C15_Witness ==
    /\ Ran("check_upi")
    /\ probe.out.status = "success"
    /\ probe.out.pattern_risk >= PATTERN_CAP
    /\ probe.out.risk_components.ml_risk = UNIT
    /\ probe.out.risk_components.device_risk = UNIT
    /\ probe.out.risk_score * CENT = TXN_MAX

\* C16: for the known scam literal
\* upi://pay?pa=urgent-verify@hack.in&pn=Account%20Verification&am=1.00
\* analyze_qr returns risk_level high for every probability in [0,1] the
\* model can return (and when there is no model or it raises): the flags
\* the heuristics raise are enough by themselves.
C16_ScamLiteralHigh ==
    (Ran("analyze_qr") /\ probe.args.text = T_SCAM_UPI) =>
        probe.out.risk_level = "high"

\* C17: for the known benign literal
\* upi://pay?pa=7357802287@superyes&pn=Kshitij&am=100.00&cu=INR analyze_qr
\* raises no heuristic flag, applies the legitimate-UPI discount of 30
\* points and returns risk_level low when the model probability is the
\* neutral fallback 0.5 (also when the fallback is taken because there is
\* no model or the model raises).
C17_BenignLiteralLow ==
    (Ran("analyze_qr") /\ probe.args.text = T_UPI
     /\ probe.args.p \in {NEUTRAL_PROBA, RAISES, NONE_LOADED}) =>
        /\ ~apply_heuristic_checks(T_UPI).is_suspicious
        /\ probe.out.analysis.ml_score * 10 = NEUTRAL_PROBA
        /\ probe.out.risk_score * 10 = NEUTRAL_PROBA - UPI_DISCOUNT
        /\ probe.out.risk_level = "low"
        /\ probe.out.reasons = << <<"Legitimate UPI payment QR", "">> >>

\* analyze_qr ran on the benign literal with a model that answered 0.5
C17_Witness ==
    /\ Ran("analyze_qr")
    /\ probe.args.text = T_UPI
    /\ probe.args.p = NEUTRAL_PROBA
    /\ probe.out.risk_level = "low"

\* an id that calculate_risk_score finds absent, None or empty
NoId(id) == id \in {NoKey, PyNone, ""}

\* C18: unknown entity default: get_device_risk, get_ip_risk and
\* get_vpa_risk return 0.3 for an id that is not in the current risk map;
\* calculate_risk_score uses 0.3 for an id that is absent, None or empty
\* (and for one the map does not hold); every lookup returns; and no
\* lookup and no scoring call (calculate_risk_score, check_upi) changes
\* the risk maps.
C18_UnknownEntityDefault ==
    [][/\ (probe.kind \in {"get_device_risk", "get_ip_risk", "get_vpa_risk"}
           /\ ~probe.done) =>
             /\ probe'.done
             /\ probe.args.id \notin DOMAIN
                    (CASE probe.kind = "get_device_risk" -> device_risk_scores
                       [] probe.kind = "get_ip_risk" -> ip_risk_scores
                       [] OTHER -> vpa_risk_scores)
                => probe'.out.value = DEFAULT_ENTITY_RISK
       /\ Ready("calculate_risk_score") =>
             LET t == probe.args.transaction
                 c == probe'.out.components
             IN  /\ probe'.done
                 /\ (NoId(t.DEVICE_ID)
                     \/ t.DEVICE_ID \notin DOMAIN device_risk_scores)
                    => c.device_risk = DEFAULT_ENTITY_RISK
                 /\ (NoId(t.IP_ADDRESS)
                     \/ t.IP_ADDRESS \notin DOMAIN ip_risk_scores)
                    => c.ip_risk = DEFAULT_ENTITY_RISK
                 /\ (NoId(t.PAYER_VPA)
                     \/ t.PAYER_VPA \notin DOMAIN vpa_risk_scores)
                    => c.vpa_risk = DEFAULT_ENTITY_RISK
       /\ txn_vars' = txn_vars]_vars

\* calculate_risk_score ran with a device id the map does not hold, an
\* empty ip address and no payer VPA, on maps that hold other entities
C18_Witness ==
    /\ Ran("calculate_risk_score")
    /\ probe.args.transaction.DEVICE_ID = "e3"
    /\ probe.args.transaction.IP_ADDRESS = ""
    /\ probe.args.transaction.PAYER_VPA = NoKey
    /\ DOMAIN device_risk_scores = EntityIds
    /\ probe.out.components.device_risk = DEFAULT_ENTITY_RISK
    /\ probe.out.components.ip_risk = DEFAULT_ENTITY_RISK
    /\ probe.out.components.vpa_risk = DEFAULT_ENTITY_RISK

\* score and level from the model and the heuristics alone: the model's
\* probability, the heuristic penalty, the legitimate-UPI discount
ModelAndHeuristics(x, m) ==
    LET heur == apply_heuristic_checks(x)
        p == predict_with_ml(m, x)
        flagged == IF heur.is_suspicious
                   THEN Min(SCALE_MAX,
                            p + Min(HEUR_CAP, Len(heur.reasons) * HEUR_STEP))
                   ELSE p
        b == IF StartsWith(x, "upi://") /\ ~heur.is_suspicious
             THEN Max(0, flagged - UPI_DISCOUNT) ELSE flagged
    IN  [risk_score |-> RoundTo(b, 10), risk_level |-> RiskLevel(b)]

\* C19: Safe Browsing is a soft dependency: when the call times out or
\* raises, or no API key is configured, analyze_qr (on a text that is not
\* empty, so that signals are consulted at all) returns a normal scoring
\* result with safe_browsing_check false and safe_browsing_unsafe false,
\* and its risk_score and risk_level are those computed from the model and
\* the heuristics alone.
C19_SafeBrowsingSoft ==
    (/\ Ran("analyze_qr")
     /\ probe.args.text # T_EMPTY
     /\ (~probe.args.configured
         \/ probe.args.outcome \in {"timeout", "raises"})) =>
        LET alone == ModelAndHeuristics(probe.args.text,
                                        ProbeModel(probe.args.p))
        IN  /\ probe.out.analysis.safe_browsing_check = FALSE
            /\ probe.out.analysis.safe_browsing_unsafe = FALSE
            /\ probe.out.risk_score = alone.risk_score
            /\ probe.out.risk_level = alone.risk_level
            /\ probe.out.risk_level \in {"low", "medium", "high"}

\* analyze_qr ran on an http URL with the API key set and the call timed
\* out; the answer is below the floor a threat report would have forced
C19_Witness ==
    /\ Ran("analyze_qr")
    /\ probe.args.text = T_HTTPS
    /\ probe.args.configured
    /\ probe.args.outcome = "timeout"
    /\ probe.out.analysis.safe_browsing_check = FALSE
    /\ probe.out.risk_score * 10 < SB_FLOOR

\* C20: external-threat floor: whenever the Safe Browsing check reports
\* the URL unsafe, analyze_qr returns risk_score >= 90 and risk_level high,
\* whatever the model probability and the heuristic result; no later
\* adjustment takes the score below 90.
C20_ThreatFloor ==
    (Ran("analyze_qr") /\ probe.out # EmptyResult
     /\ probe.out.analysis.safe_browsing_unsafe) =>
        /\ probe.out.risk_score * 10 >= SB_FLOOR
        /\ probe.out.risk_level = "high"
        /\ \E i \in 1..Len(probe.out.reasons) :
              probe.out.reasons[i] = <<"Flagged by Safe Browsing API", "">>

\* analyze_qr ran on an https URL that raises no flag, the model answered
\* 0, Safe Browsing reported a threat, and the score is the floor
C20_Witness ==
    /\ Ran("analyze_qr")
    /\ probe.args.text = T_HTTPS
    /\ probe.args.p = 0
    /\ probe.args.configured /\ probe.args.outcome = "match"
    /\ probe.out.analysis.safe_browsing_unsafe
    /\ probe.out.risk_score * 10 = SB_FLOOR
    /\ probe.out.risk_level = "high"

\* C21: degraded inference is visible: when the text model is missing or
\* predict_proba raises, analyze_qr scores a non-empty text with the
\* neutral probability 0.5 instead of failing, and the result it returns
\* differs, in its component breakdown (analysis), from the result of a
\* call in which the model itself answered 0.5.
C21_DegradedVisible ==
    (/\ Ran("analyze_qr")
     /\ probe.args.text # T_EMPTY
     /\ probe.args.p \in {NONE_LOADED, RAISES}) =>
        LET a == probe.args
            full == EnhAnswer(a.text, ProbeModel(NEUTRAL_PROBA),
                              check_safe_browsing_api(a.text, a.configured,
                                                      a.outcome),
                              a.lat)
        IN  /\ probe.out.analysis.ml_score * 10 = NEUTRAL_PROBA
            /\ probe.out.analysis # full.analysis

\* the placeholder batch_predict gives for an item whose analysis raised
IsPlaceholder(e) ==
    /\ "error" \in DOMAIN e
    /\ e.risk_score = BATCH_ERROR_SCORE

\* C22: batch scoring: batch_predict returns exactly one entry per input
\* text, in input order; an item whose analysis raises (here: cache.get or
\* cache.set raising) gets a neutral placeholder with risk_score 50, and
\* the items after it are still analysed: an item during which the cache
\* works gets the scoring result analyze_qr gives for its text.
C22_BatchOnePerItem ==
    Ran("batch_predict") =>
        LET a == probe.args
            rs == probe.out.results
        IN  /\ Len(rs) = Len(a.qr_texts)
            /\ \A i \in 1..Len(a.qr_texts) :
                  /\ rs[i].qr_text = a.qr_texts[i]
                  /\ a.faults[i] = "get" => IsPlaceholder(rs[i])
                  /\ a.faults[i] = "none" =>
                        /\ ~IsPlaceholder(rs[i])
                        /\ rs[i].risk_score =
                              EnhAnswer(a.qr_texts[i], ProbeModel(a.p),
                                  check_safe_browsing_api(a.qr_texts[i],
                                      a.configured, a.outcome),
                                  a.lat).risk_score
                        /\ rs[i].risk_level =
                              EnhAnswer(a.qr_texts[i], ProbeModel(a.p),
                                  check_safe_browsing_api(a.qr_texts[i],
                                      a.configured, a.outcome),
                                  a.lat).risk_level

\* a batch of three texts ran in which the analysis of the first raised
\* and the two after it were analysed
C22_Witness ==
    /\ Ran("batch_predict")
    /\ Len(probe.args.qr_texts) = 3
    /\ probe.args.faults = <<"get", "none", "none">>
    /\ probe.args.qr_texts[2] = T_URL
    /\ Len(probe.out.results) = 3
    /\ IsPlaceholder(probe.out.results[1])
    /\ probe.out.results[2].risk_level \in {"low", "medium", "high"}
    /\ probe.out.results[3].qr_text = probe.args.qr_texts[3]

\* C23: cache unavailable: when cache.get or cache.set raises during a
\* scoring call, POST /predict still returns a scoring result, the one
\* computed without the cache, rather than an error.
C23_CacheUnavailable ==
    (Ran("predict") /\ probe.args.fault # "none") =>
        LET a == probe.args
            uncached == EnhAnswer(a.text, ProbeModel(a.p),
                            check_safe_browsing_api(a.text, a.configured,
                                                    a.outcome),
                            a.lat)
        IN  /\ "risk_score" \in DOMAIN probe.out
            /\ probe.out.risk_score = uncached.risk_score
            /\ probe.out.risk_level = uncached.risk_level

\* the scorer's score, recomputed from the components check_upi returns
WeightedSum(c) ==
    W_TIME * c.time_risk + W_AMOUNT * c.amount_risk
    + W_DEVICE * c.device_risk + W_IP * c.ip_risk + W_VPA * c.vpa_risk
    + W_STATUS * c.status_risk + W_ML * c.ml_risk
    + W_ANOMALY * c.anomaly_score

\* C24: heuristic penalty cap: the heuristic contribution added to a score
\* is min(ceiling, sum of the per-rule penalties) and so never exceeds the
\* ceiling: in analyze_qr 10 points per flag up to 40 points, whatever the
\* number of flags (stated where Safe Browsing reports no threat, so that
\* the score is the model's plus the contribution, capped at 100); in
\* check_upi the pattern risk up to 3.0 points, whatever the patterns
\* matched.
C24_PenaltyCap ==
    /\ (/\ Ran("analyze_qr")
        /\ probe.args.text # T_EMPTY
        /\ apply_heuristic_checks(probe.args.text).is_suspicious
        /\ ~probe.out.analysis.safe_browsing_unsafe) =>
          LET p == predict_with_ml(ProbeModel(probe.args.p), probe.args.text)
              sum == Len(apply_heuristic_checks(probe.args.text).reasons)
                     * HEUR_STEP
          IN  /\ probe.out.risk_score =
                     RoundTo(Min(SCALE_MAX, p + Min(HEUR_CAP, sum)), 10)
              /\ probe.out.risk_score <= RoundTo(p + HEUR_CAP, 10)
    /\ (Ran("check_upi") /\ probe.out.status = "success") =>
          LET base == WeightedSum(probe.out.risk_components)
          IN  /\ probe.out.risk_score =
                     RoundTo(Min(TXN_MAX,
                                 base + Min(PATTERN_CAP,
                                            probe.out.pattern_risk)), CENT)
              /\ probe.out.risk_score <= RoundTo(base + PATTERN_CAP, CENT)

\* analyze_qr ran on a text that raises five flags with a model that
\* answered 0, and the score is the ceiling of 40 points
C24_Witness ==
    /\ Ran("analyze_qr")
    /\ probe.args.text = D3
    /\ probe.args.p = 0
    /\ Len(apply_heuristic_checks(D3).reasons) = 5
    /\ probe.out.risk_score * 10 = HEUR_CAP

\* ---------------------------------------------------------------- C25
\* C25: a second calculate_risk_score call with the same transaction
\* record, the same models and the same entity risk maps, made at any
\* other time, returns the result (risk_score, risk_level, components)
\* that the first call returned.
C25_Deterministic ==
    Ran("calculate_risk_score") =>
        \A later \in Clocks :
            calculate_risk_score(probe.args.transaction, probe.args.rf,
                                 probe.args.iso, later).result = probe.out

\* ---------------------------------------------------------------- C26
\* the text starts with upi:// and holds none of the suspicious keywords
CleanUpi(x) ==
    /\ StartsWith(x, "upi://")
    /\ ~\E i \in 1..Len(upi_suspicious_keywords) :
            Contains(x, upi_suspicious_keywords[i])

\* C26: in enhanced analyze_qr, optimized predict and qr_scam_service
\* predict, a score differs from the score before the UPI discount only
\* for a text that starts with upi:// and holds no suspicious keyword; a
\* upi:// text holding 'urgent' is never discounted.
C26_DiscountOnlyClean ==
    /\ (Ran("analyze_qr") /\ probe.args.text # T_EMPTY) =>
          LET x == probe.args.text
              before == BaseRiskNoDiscount(x,
                            predict_with_ml(ProbeModel(probe.args.p), x),
                            apply_heuristic_checks(x),
                            [is_unsafe |->
                                probe.out.analysis.safe_browsing_unsafe])
          IN  probe.out.risk_score # RoundTo(before, 10) => CleanUpi(x)
    /\ Ran("optimized_predict") =>
          LET x == probe.args.text
              before == predict_with_ml(ProbeModel(probe.args.p), x)
          IN  probe.out.risk_score # before => CleanUpi(x)
    /\ (Ran("scam_predict") /\ probe.args.p # RAISES) =>
          LET x == probe.args.text
              before == scam_model_predict(probe.args.p, x) \div 100
          IN  probe.out.risk_score # before => CleanUpi(x)

\* ---------------------------------------------------------------- C27
\* the rule family apply_heuristic_checks takes a text through
RuleFamily(x) ==
    IF StartsWith(x, "upi://") THEN "upi"
    ELSE IF StartsWith(x, "http://") \/ StartsWith(x, "https://") THEN "url"
    ELSE "text"

\* C27: analyze_qr tags a non-empty text 'upi' exactly when it starts with
\* upi://, 'url' exactly when it starts with http:// or https://, 'text'
\* otherwise, which is the rule family that was applied to it.
C27_TypeTag ==
    (Ran("analyze_qr") /\ probe.args.text # T_EMPTY) =>
        probe.out.qr_type = RuleFamily(probe.args.text)

\* ---------------------------------------------------------------- C28
\* the risk_score analyze_qr gives text y when the model answers p and the
\* Safe Browsing call goes as it did in the call under observation
ScoreWith(y, p) ==
    EnhAnswer(y, ProbeModel(p),
              check_safe_browsing_api(y, probe.args.configured,
                                      probe.args.outcome),
              probe.args.lat).risk_score
FlagCount(y) == Len(apply_heuristic_checks(y).reasons)

\* C28: for the text and Safe Browsing outcome of an analyze_qr call, a
\* higher model probability never gives a lower risk_score; and at the
\* call's probability, a text of the same type with more heuristic flags
\* never scores lower.
C28_Monotone ==
    (Ran("analyze_qr") /\ probe.args.text # T_EMPTY
        /\ probe.args.p \in ProbaGrid) =>
        LET x == probe.args.text
            p == probe.args.p
        IN  /\ probe.out.risk_score = ScoreWith(x, p)
            /\ \A q \in ProbaGrid :
                  q >= p => ScoreWith(x, q) >= probe.out.risk_score
            /\ \A y \in PureTexts \ {T_EMPTY} :
                  (RuleFamily(y) = RuleFamily(x)
                      /\ FlagCount(y) >= FlagCount(x)) =>
                  ScoreWith(y, p) >= probe.out.risk_score
C28_Witness ==
    /\ Ran("analyze_qr") /\ probe.args.text = T_UPI /\ probe.args.p = 3000
    /\ FlagCount(T_SCAM_UPI) > FlagCount(T_UPI)
    /\ ScoreWith(T_SCAM_UPI, 3000) > probe.out.risk_score
    /\ ScoreWith(T_UPI, 7000) > probe.out.risk_score

\* ---------------------------------------------------------------- C29
\* C29: analysis.heuristic_flags of an analyze_qr result is the number of
\* heuristic rules that fired for the text (0 when the heuristic check is
\* not suspicious), whatever Safe Browsing answered and whatever
\* informational reason was added to the reasons list.
C29_FlagsCountRules ==
    (Ran("analyze_qr") /\ probe.args.text # T_EMPTY) =>
        LET heur == apply_heuristic_checks(probe.args.text)
        IN  /\ probe.out.analysis.heuristic_flags = Len(heur.reasons)
            /\ ~heur.is_suspicious => probe.out.analysis.heuristic_flags = 0

\* ------------------------------------- qr_scan_ml_service: BatchProcessor
SmallBatch == 2

\* predict_batch's loop: q is self.batch, m the model; the list it returns
\* (or that predict_proba_one raised), what is left on self.batch, and the
\* texts it popped
RECURSIVE PredictLoop(_, _, _)
PredictLoop(q, m, results) ==
    IF q = << >>
    THEN [raised |-> FALSE, results |-> results, batch |-> << >>,
          taken |-> << >>]
    ELSE LET qr_text == Head(q)
             proba == m.proba[qr_text]
         IN  IF proba = RAISES
             THEN [raised |-> TRUE, results |-> << >>, batch |-> Tail(q),
                   taken |-> <<qr_text>>]
             ELSE LET rest == PredictLoop(Tail(q), m,
                                  Append(results,
                                         [qr_text |-> qr_text,
                                          risk_score |-> proba,
                                          prediction |-> proba > NEUTRAL_PROBA]))
                  IN  [rest EXCEPT !.taken = <<qr_text>> \o @]
predict_batch(q, m) == PredictLoop(q, m, << >>)

bp_frame ==
    <<service, now, pending, asked, enh_vars, opt_vars, ml_vars, resp,
      calls, evals, conc, dirty, last, n_req, n_fb, fits, retrains,
      streak, txn_vars, probe>>

\* caller c's process() returns what predict_batch gives now
ReturnBatch(c, x, q) ==
    LET r == predict_batch(q, ml_model)
    IN  /\ batch_processor' = [batch_processor EXCEPT !.batch = r.batch]
        /\ coros' = [coros EXCEPT ![c] = [pc |-> "done", qr_text |-> x,
                                          raised |-> r.raised,
                                          results |-> r.results]]
        /\ predicted' = predicted \o r.taken

\* process(qr_text) up to its await: the text joins the batch; a full
\* batch is predicted at once, otherwise the caller sleeps max_delay
Process(c, x) ==
    /\ service = "batch_processor"
    /\ coros[c].pc = "new"
    /\ LET q == Append(batch_processor.batch, x)
       IN  IF Len(q) >= batch_processor.max_batch_size
           THEN /\ ReturnBatch(c, x, q)
                /\ UNCHANGED timers
           ELSE /\ batch_processor' = [batch_processor EXCEPT !.batch = q]
                /\ coros' = [coros EXCEPT ![c] = [@ EXCEPT !.pc = "sleeping",
                                                          !.qr_text = x]]
                /\ timers' = Append(timers, c)
                /\ UNCHANGED predicted
    /\ UNCHANGED bp_frame

\* the earliest sleeper's asyncio.sleep ends: process() goes on after the
\* await and returns predict_batch()
WakeUp ==
    /\ service = "batch_processor"
    /\ timers # << >>
    /\ LET c == Head(timers)
       IN  /\ ReturnBatch(c, coros[c].qr_text, batch_processor.batch)
           /\ timers' = Tail(timers)
    /\ UNCHANGED bp_frame

BatchProcInit ==
    /\ service = "batch_processor"
    /\ EnhOff /\ OptOff /\ MlInit
    /\ now = 0
    /\ pending = [t \in Texts |-> 0]
    /\ asked = {}
    /\ resp = NoResp
    /\ calls = [t \in Texts |-> 0]
    /\ evals = [t \in Texts |-> 0]
    /\ conc = [t \in Texts |-> FALSE]
    /\ dirty = [t \in Texts |-> FALSE]
    /\ last = [t \in Texts |-> NoLast]
    /\ n_req = 0 /\ n_fb = 0 /\ fits = 0 /\ retrains = 0 /\ streak = 0
    /\ TxnOff
    /\ probe = NoProbe
    /\ batch_processor \in [batch : {<< >>},
                            max_batch_size : {SmallBatch, BATCH_SIZE_DEFAULT}]
    /\ BpIdle
BatchProcNext ==
    \/ \E c \in Callers, x \in Texts : Process(c, x)
    \/ WakeUp
BatchProcSpec == BatchProcInit /\ [][BatchProcNext]_vars

\* ---------------------------------------------------------------- C30
\* how often text x occurs in the sequence s
Occurrences(s, x) == Cardinality({i \in 1..Len(s) : s[i] = x})

\* C30: whatever the number of callers inside process() at once, every
\* submitted text is predicted at most once, exactly once when every call
\* has ended, and the list a caller gets back holds the result for the
\* text that caller submitted.
C30_EveryCallerServed ==
    /\ \A x \in Texts :
          LET submitted == Cardinality({c \in Callers :
                              coros[c].pc # "new" /\ coros[c].qr_text = x})
          IN  /\ Occurrences(predicted, x) <= submitted
              /\ (\A c \in Callers : coros[c].pc # "sleeping") =>
                    Occurrences(predicted, x) = submitted
    /\ \A c \in Callers :
          (coros[c].pc = "done" /\ ~coros[c].raised) =>
              \E i \in 1..Len(coros[c].results) :
                  coros[c].results[i].qr_text = coros[c].qr_text
====
